---------------------------- MODULE Spec2Model ----------------------------
(***************************************************************************)
(* AES-128 block cipher of the cryptopals repository (src/src/aes.rs) and  *)
(* the `aes decrypt` command built on it (src/src/bin/aes.rs).             *)
(*                                                                         *)
(* Bytes are naturals in 0..255.  A Rust array or Vec<u8> is a TLA+        *)
(* sequence; the Rust index k is the TLA+ index k + 1 (see Get and Set).   *)
(* The pure functions of the source are operators that follow the source   *)
(* statement by statement; loops are recursive operators over the loop     *)
(* variable.                                                               *)
(***************************************************************************)
EXTENDS Integers, Sequences, FiniteSets, TLC

(***************************************************************************)
(* Byte arithmetic.                                                        *)
(***************************************************************************)
Byte == 0..255

\* Rust array read  a[k]  (0-based).
Get(a, k) == a[k + 1]

\* Rust array write  a[k] = v  (0-based).
Set(a, k, v) == [a EXCEPT ![k + 1] = v]

\* x ^ y for the 4-bit values x, y: XorNibble[x + 1][y + 1].
XorNibble ==
    << << 0,  1,  2,  3,  4,  5,  6,  7,  8,  9, 10, 11, 12, 13, 14, 15>>,
       << 1,  0,  3,  2,  5,  4,  7,  6,  9,  8, 11, 10, 13, 12, 15, 14>>,
       << 2,  3,  0,  1,  6,  7,  4,  5, 10, 11,  8,  9, 14, 15, 12, 13>>,
       << 3,  2,  1,  0,  7,  6,  5,  4, 11, 10,  9,  8, 15, 14, 13, 12>>,
       << 4,  5,  6,  7,  0,  1,  2,  3, 12, 13, 14, 15,  8,  9, 10, 11>>,
       << 5,  4,  7,  6,  1,  0,  3,  2, 13, 12, 15, 14,  9,  8, 11, 10>>,
       << 6,  7,  4,  5,  2,  3,  0,  1, 14, 15, 12, 13, 10, 11,  8,  9>>,
       << 7,  6,  5,  4,  3,  2,  1,  0, 15, 14, 13, 12, 11, 10,  9,  8>>,
       << 8,  9, 10, 11, 12, 13, 14, 15,  0,  1,  2,  3,  4,  5,  6,  7>>,
       << 9,  8, 11, 10, 13, 12, 15, 14,  1,  0,  3,  2,  5,  4,  7,  6>>,
       <<10, 11,  8,  9, 14, 15, 12, 13,  2,  3,  0,  1,  6,  7,  4,  5>>,
       <<11, 10,  9,  8, 15, 14, 13, 12,  3,  2,  1,  0,  7,  6,  5,  4>>,
       <<12, 13, 14, 15,  8,  9, 10, 11,  4,  5,  6,  7,  0,  1,  2,  3>>,
       <<13, 12, 15, 14,  9,  8, 11, 10,  5,  4,  7,  6,  1,  0,  3,  2>>,
       <<14, 15, 12, 13, 10, 11,  8,  9,  6,  7,  4,  5,  2,  3,  0,  1>>,
       <<15, 14, 13, 12, 11, 10,  9,  8,  7,  6,  5,  4,  3,  2,  1,  0>> >>

\* The `^` operator on u8: bitwise exclusive or, taken on the high and on
\* the low four bits.
Xor(a, b) ==
    XorNibble[(a \div 16) + 1][(b \div 16) + 1] * 16
  + XorNibble[(a % 16) + 1][(b % 16) + 1]

\* `a << 1` on u8: the bit shifted out of the byte is lost.
Shl1(a) == (a * 2) % 256

\* `b >> 1` on u8.
Shr1(b) == b \div 2

\* Rust computes a value where it is assigned.  Defined(v) is TRUE for every
\* value v; as the first conjunct of a loop condition it makes the loop
\* variable v be computed at the loop head and not where it is last used.
Defined(v) == v = v

(***************************************************************************)
(* The outcome of a call that can panic: the value it returns, or the      *)
(* message of the panic.                                                   *)
(***************************************************************************)
Returned(v) == [tag |-> "returned", value |-> v, message |-> ""]

Panicked(m) == [tag |-> "panicked", value |-> <<>>, message |-> m]

(***************************************************************************)
(* mod gf: operations in GF(2^8).                                          *)
(***************************************************************************)
add(a, b) == Xor(a, b)

add_word(a, b) ==
    << add(Get(a, 0), Get(b, 0)),
       add(Get(a, 1), Get(b, 1)),
       add(Get(a, 2), Get(b, 2)),
       add(Get(a, 3), Get(b, 3)) >>

\* gf::mult testing bit 1 of `b` and not bit 0.
RECURSIVE mult_loop_TestsSecondBit(_, _, _)
mult_loop_TestsSecondBit(a, b, result) ==
    IF a # 0 /\ b # 0
    THEN LET result1 == IF (b \div 2) % 2 = 1 THEN add(result, a) ELSE result
             b1      == Shr1(b)
             a1      == IF a \div 128 # 0 THEN add(Shl1(a), 27) ELSE Shl1(a)
         IN  mult_loop_TestsSecondBit(a1, b1, result1)
    ELSE result

\* gf::mult reducing with 0x1d in place of 0x1b.
RECURSIVE mult_loop_Reduce1d(_, _, _)
mult_loop_Reduce1d(a, b, result) ==
    IF a # 0 /\ b # 0
    THEN LET result1 == IF b % 2 = 1 THEN add(result, a) ELSE result
             b1      == Shr1(b)
             a1      == IF a \div 128 # 0 THEN add(Shl1(a), 29) ELSE Shl1(a)
         IN  mult_loop_Reduce1d(a1, b1, result1)
    ELSE result

\* gf::mult looking at the high bit of `a` after the shift and not before.
RECURSIVE mult_loop_HighBitAfterShift(_, _, _)
mult_loop_HighBitAfterShift(a, b, result) ==
    IF a # 0 /\ b # 0
    THEN LET result1 == IF b % 2 = 1 THEN add(result, a) ELSE result
             b1      == Shr1(b)
             a1      == IF Shl1(a) \div 128 # 0 THEN add(Shl1(a), 27) ELSE Shl1(a)
         IN  mult_loop_HighBitAfterShift(a1, b1, result1)
    ELSE result

\* The body of the while loop of gf::mult, from the loop variables
\* (a, b, result) at the loop head to the value returned.
RECURSIVE mult_loop(_, _, _)
mult_loop(a, b, result) ==
    IF a # 0 /\ b # 0
    THEN LET result1 == IF b % 2 = 1 THEN add(result, a) ELSE result
             b1      == Shr1(b)
             a1      == IF a \div 128 # 0 THEN add(Shl1(a), 27) ELSE Shl1(a)
         IN  mult_loop(a1, b1, result1)
    ELSE result

mult(a, b) == mult_loop(a, b, 0)

\* The condition of the while loop of gf::mult looking at `a` alone.
mult_condition_IgnoresB(a, b) == a # 0

\* while a != 0 && b != 0
mult_condition(a, b) == a # 0 /\ b # 0

\* One pass through the body of the while loop of gf::mult, from the loop
\* variables before it to the loop variables after it.
mult_pass(a, b, result) ==
    [ result |-> IF b % 2 = 1 THEN add(result, a) ELSE result,
      b      |-> Shr1(b),
      a      |-> IF a \div 128 # 0 THEN add(Shl1(a), 27) ELSE Shl1(a) ]

(***************************************************************************)
(* The substitution tables.                                                *)
(***************************************************************************)
\* SBOX_ENCRYPT with its first two entries exchanged.
SBOX_ENCRYPT_FirstTwoExchanged ==
  <<
     124,  99, 119, 123, 242, 107, 111, 197,  48,   1, 103,  43, 254, 215, 171, 118,
     202, 130, 201, 125, 250,  89,  71, 240, 173, 212, 162, 175, 156, 164, 114, 192,
     183, 253, 147,  38,  54,  63, 247, 204,  52, 165, 229, 241, 113, 216,  49,  21,
       4, 199,  35, 195,  24, 150,   5, 154,   7,  18, 128, 226, 235,  39, 178, 117,
       9, 131,  44,  26,  27, 110,  90, 160,  82,  59, 214, 179,  41, 227,  47, 132,
      83, 209,   0, 237,  32, 252, 177,  91, 106, 203, 190,  57,  74,  76,  88, 207,
     208, 239, 170, 251,  67,  77,  51, 133,  69, 249,   2, 127,  80,  60, 159, 168,
      81, 163,  64, 143, 146, 157,  56, 245, 188, 182, 218,  33,  16, 255, 243, 210,
     205,  12,  19, 236,  95, 151,  68,  23, 196, 167, 126,  61, 100,  93,  25, 115,
      96, 129,  79, 220,  34,  42, 144, 136,  70, 238, 184,  20, 222,  94,  11, 219,
     224,  50,  58,  10,  73,   6,  36,  92, 194, 211, 172,  98, 145, 149, 228, 121,
     231, 200,  55, 109, 141, 213,  78, 169, 108,  86, 244, 234, 101, 122, 174,   8,
     186, 120,  37,  46,  28, 166, 180, 198, 232, 221, 116,  31,  75, 189, 139, 138,
     112,  62, 181, 102,  72,   3, 246,  14,  97,  53,  87, 185, 134, 193,  29, 158,
     225, 248, 152,  17, 105, 217, 142, 148, 155,  30, 135, 233, 206,  85,  40, 223,
     140, 161, 137,  13, 191, 230,  66, 104,  65, 153,  45,  15, 176,  84, 187,  22
  >>

SBOX_ENCRYPT ==
  <<
      99, 124, 119, 123, 242, 107, 111, 197,  48,   1, 103,  43, 254, 215, 171, 118,
     202, 130, 201, 125, 250,  89,  71, 240, 173, 212, 162, 175, 156, 164, 114, 192,
     183, 253, 147,  38,  54,  63, 247, 204,  52, 165, 229, 241, 113, 216,  49,  21,
       4, 199,  35, 195,  24, 150,   5, 154,   7,  18, 128, 226, 235,  39, 178, 117,
       9, 131,  44,  26,  27, 110,  90, 160,  82,  59, 214, 179,  41, 227,  47, 132,
      83, 209,   0, 237,  32, 252, 177,  91, 106, 203, 190,  57,  74,  76,  88, 207,
     208, 239, 170, 251,  67,  77,  51, 133,  69, 249,   2, 127,  80,  60, 159, 168,
      81, 163,  64, 143, 146, 157,  56, 245, 188, 182, 218,  33,  16, 255, 243, 210,
     205,  12,  19, 236,  95, 151,  68,  23, 196, 167, 126,  61, 100,  93,  25, 115,
      96, 129,  79, 220,  34,  42, 144, 136,  70, 238, 184,  20, 222,  94,  11, 219,
     224,  50,  58,  10,  73,   6,  36,  92, 194, 211, 172,  98, 145, 149, 228, 121,
     231, 200,  55, 109, 141, 213,  78, 169, 108,  86, 244, 234, 101, 122, 174,   8,
     186, 120,  37,  46,  28, 166, 180, 198, 232, 221, 116,  31,  75, 189, 139, 138,
     112,  62, 181, 102,  72,   3, 246,  14,  97,  53,  87, 185, 134, 193,  29, 158,
     225, 248, 152,  17, 105, 217, 142, 148, 155,  30, 135, 233, 206,  85,  40, 223,
     140, 161, 137,  13, 191, 230,  66, 104,  65, 153,  45,  15, 176,  84, 187,  22
  >>

\* SBOX_DECRYPT with its first two entries exchanged.
SBOX_DECRYPT_FirstTwoExchanged ==
  <<
       9,  82, 106, 213,  48,  54, 165,  56, 191,  64, 163, 158, 129, 243, 215, 251,
     124, 227,  57, 130, 155,  47, 255, 135,  52, 142,  67,  68, 196, 222, 233, 203,
      84, 123, 148,  50, 166, 194,  35,  61, 238,  76, 149,  11,  66, 250, 195,  78,
       8,  46, 161, 102,  40, 217,  36, 178, 118,  91, 162,  73, 109, 139, 209,  37,
     114, 248, 246, 100, 134, 104, 152,  22, 212, 164,  92, 204,  93, 101, 182, 146,
     108, 112,  72,  80, 253, 237, 185, 218,  94,  21,  70,  87, 167, 141, 157, 132,
     144, 216, 171,   0, 140, 188, 211,  10, 247, 228,  88,   5, 184, 179,  69,   6,
     208,  44,  30, 143, 202,  63,  15,   2, 193, 175, 189,   3,   1,  19, 138, 107,
      58, 145,  17,  65,  79, 103, 220, 234, 151, 242, 207, 206, 240, 180, 230, 115,
     150, 172, 116,  34, 231, 173,  53, 133, 226, 249,  55, 232,  28, 117, 223, 110,
      71, 241,  26, 113,  29,  41, 197, 137, 111, 183,  98,  14, 170,  24, 190,  27,
     252,  86,  62,  75, 198, 210, 121,  32, 154, 219, 192, 254, 120, 205,  90, 244,
      31, 221, 168,  51, 136,   7, 199,  49, 177,  18,  16,  89,  39, 128, 236,  95,
      96,  81, 127, 169,  25, 181,  74,  13,  45, 229, 122, 159, 147, 201, 156, 239,
     160, 224,  59,  77, 174,  42, 245, 176, 200, 235, 187,  60, 131,  83, 153,  97,
      23,  43,   4, 126, 186, 119, 214,  38, 225, 105,  20,  99,  85,  33,  12, 125
  >>

SBOX_DECRYPT ==
  <<
      82,   9, 106, 213,  48,  54, 165,  56, 191,  64, 163, 158, 129, 243, 215, 251,
     124, 227,  57, 130, 155,  47, 255, 135,  52, 142,  67,  68, 196, 222, 233, 203,
      84, 123, 148,  50, 166, 194,  35,  61, 238,  76, 149,  11,  66, 250, 195,  78,
       8,  46, 161, 102,  40, 217,  36, 178, 118,  91, 162,  73, 109, 139, 209,  37,
     114, 248, 246, 100, 134, 104, 152,  22, 212, 164,  92, 204,  93, 101, 182, 146,
     108, 112,  72,  80, 253, 237, 185, 218,  94,  21,  70,  87, 167, 141, 157, 132,
     144, 216, 171,   0, 140, 188, 211,  10, 247, 228,  88,   5, 184, 179,  69,   6,
     208,  44,  30, 143, 202,  63,  15,   2, 193, 175, 189,   3,   1,  19, 138, 107,
      58, 145,  17,  65,  79, 103, 220, 234, 151, 242, 207, 206, 240, 180, 230, 115,
     150, 172, 116,  34, 231, 173,  53, 133, 226, 249,  55, 232,  28, 117, 223, 110,
      71, 241,  26, 113,  29,  41, 197, 137, 111, 183,  98,  14, 170,  24, 190,  27,
     252,  86,  62,  75, 198, 210, 121,  32, 154, 219, 192, 254, 120, 205,  90, 244,
      31, 221, 168,  51, 136,   7, 199,  49, 177,  18,  16,  89,  39, 128, 236,  95,
      96,  81, 127, 169,  25, 181,  74,  13,  45, 229, 122, 159, 147, 201, 156, 239,
     160, 224,  59,  77, 174,  42, 245, 176, 200, 235, 187,  60, 131,  83, 153,  97,
      23,  43,   4, 126, 186, 119, 214,  38, 225, 105,  20,  99,  85,  33,  12, 125
  >>

(***************************************************************************)
(* mod state: the 16-byte block, column-major.                             *)
(***************************************************************************)
\* Column::mix with the coefficients 02 and 03 of the first row exchanged.
mix_FirstRowSwapped(c) ==
    << Xor(Xor(Xor(mult(3, Get(c, 0)), mult(2, Get(c, 1))), Get(c, 2)), Get(c, 3)),
       Xor(Xor(Xor(Get(c, 0), mult(2, Get(c, 1))), mult(3, Get(c, 2))), Get(c, 3)),
       Xor(Xor(Xor(Get(c, 0), Get(c, 1)), mult(2, Get(c, 2))), mult(3, Get(c, 3))),
       Xor(Xor(Xor(mult(3, Get(c, 0)), Get(c, 1)), Get(c, 2)), mult(2, Get(c, 3))) >>

\* Column::mix
mix(c) ==
    << Xor(Xor(Xor(mult(2, Get(c, 0)), mult(3, Get(c, 1))), Get(c, 2)), Get(c, 3)),
       Xor(Xor(Xor(Get(c, 0), mult(2, Get(c, 1))), mult(3, Get(c, 2))), Get(c, 3)),
       Xor(Xor(Xor(Get(c, 0), Get(c, 1)), mult(2, Get(c, 2))), mult(3, Get(c, 3))),
       Xor(Xor(Xor(mult(3, Get(c, 0)), Get(c, 1)), Get(c, 2)), mult(2, Get(c, 3))) >>

\* Column::inv_mix with the coefficients 0b and 0d of the second row
\* exchanged.
inv_mix_SecondRowSwapped(c) ==
    << Xor(Xor(Xor(mult(14, Get(c, 0)), mult(11, Get(c, 1))), mult(13, Get(c, 2))), mult(9, Get(c, 3))),
       Xor(Xor(Xor(mult(9, Get(c, 0)), mult(14, Get(c, 1))), mult(13, Get(c, 2))), mult(11, Get(c, 3))),
       Xor(Xor(Xor(mult(13, Get(c, 0)), mult(9, Get(c, 1))), mult(14, Get(c, 2))), mult(11, Get(c, 3))),
       Xor(Xor(Xor(mult(11, Get(c, 0)), mult(13, Get(c, 1))), mult(9, Get(c, 2))), mult(14, Get(c, 3))) >>

\* Column::inv_mix
inv_mix(c) ==
    << Xor(Xor(Xor(mult(14, Get(c, 0)), mult(11, Get(c, 1))), mult(13, Get(c, 2))), mult(9, Get(c, 3))),
       Xor(Xor(Xor(mult(9, Get(c, 0)), mult(14, Get(c, 1))), mult(11, Get(c, 2))), mult(13, Get(c, 3))),
       Xor(Xor(Xor(mult(13, Get(c, 0)), mult(9, Get(c, 1))), mult(14, Get(c, 2))), mult(11, Get(c, 3))),
       Xor(Xor(Xor(mult(11, Get(c, 0)), mult(13, Get(c, 1))), mult(9, Get(c, 2))), mult(14, Get(c, 3))) >>

\* State::from_bytes and State::into_array wrap and unwrap the array.
from_bytes(input) == input

into_array(state) == state

\* State::from_rows of the tests: result[c * 4 + r] = input[r][c]
from_rows(input) == [k \in 1..16 |-> Get(Get(input, (k - 1) % 4), (k - 1) \div 4)]

\* The Index impl of State reading the array row by row.
State_index_RowMajor(state, row, col) == Get(state, col + 4 * row)

\* impl ops::Index<(usize, usize)> for State: state[(row, col)]
State_index(state, row, col) == Get(state, row + 4 * col)

\* State::column: the slice [index*4, index*4+4) of the state; a panic for
\* an index above 3.
column(state, index) ==
    IF index > 3
    THEN Panicked("block only has 4 columns")
    ELSE SubSeq(state, index * 4 + 1, index * 4 + 4)

\* State::set_column
set_column(state, index, col) ==
    IF index > 3
    THEN Panicked("block only has 4 columns")
    ELSE [state EXCEPT ![index * 4 + 0 + 1] = Get(col, 0),
                       ![index * 4 + 1 + 1] = Get(col, 1),
                       ![index * 4 + 2 + 1] = Get(col, 2),
                       ![index * 4 + 3 + 1] = Get(col, 3)]

\* apply_sbox looking up, for position i, the byte at the position after it.
RECURSIVE apply_sbox_loop_NextPosition(_, _, _)
apply_sbox_loop_NextPosition(state, sbox, i) ==
    IF i < Len(state)
    THEN apply_sbox_loop_NextPosition(
             Set(state, i, Get(sbox, Get(state, (i + 1) % 16))), sbox, i + 1)
    ELSE state

\* State::apply_sbox: for i in 0..16 { self.0[i] = sbox[self.0[i]] }
RECURSIVE apply_sbox_loop(_, _, _)
apply_sbox_loop(state, sbox, i) ==
    IF i < Len(state)
    THEN apply_sbox_loop(Set(state, i, Get(sbox, Get(state, i))), sbox, i + 1)
    ELSE state

apply_sbox(state, sbox) == apply_sbox_loop(state, sbox, 0)

\* sub_bytes looking up the inverse table.
sub_bytes_InverseTable(state) == apply_sbox(state, SBOX_DECRYPT)

sub_bytes(state) == apply_sbox(state, SBOX_ENCRYPT)

\* inv_sub_bytes looking up the table of sub_bytes.
inv_sub_bytes_ForwardTable(state) == apply_sbox(state, SBOX_ENCRYPT)

inv_sub_bytes(state) == apply_sbox(state, SBOX_DECRYPT)

\* shift_rows rotating the third row by one position and not by two.
shift_rows_ThirdRowByOne(s0) ==
    << Get(s0, 0),  Get(s0, 5),  Get(s0, 6),  Get(s0, 15),
       Get(s0, 4),  Get(s0, 9),  Get(s0, 10), Get(s0, 3),
       Get(s0, 8),  Get(s0, 13), Get(s0, 14), Get(s0, 7),
       Get(s0, 12), Get(s0, 1),  Get(s0, 2),  Get(s0, 11) >>

\* shift_rows rotating the last row by one position, as it rotates the
\* second row, and not by three.
shift_rows_LastRowByOne(s0) ==
    << Get(s0, 0),  Get(s0, 5),  Get(s0, 10), Get(s0, 7),
       Get(s0, 4),  Get(s0, 9),  Get(s0, 14), Get(s0, 11),
       Get(s0, 8),  Get(s0, 13), Get(s0, 2),  Get(s0, 15),
       Get(s0, 12), Get(s0, 1),  Get(s0, 6),  Get(s0, 3) >>

\* State::shift_rows, assignment by assignment.
shift_rows(s0) ==
    LET tmp  == Get(s0, 4 * 0 + 1)
        s1   == Set(s0, 4 * 0 + 1, Get(s0, 4 * 1 + 1))
        s2   == Set(s1, 4 * 1 + 1, Get(s1, 4 * 2 + 1))
        s3   == Set(s2, 4 * 2 + 1, Get(s2, 4 * 3 + 1))
        s4   == Set(s3, 4 * 3 + 1, tmp)
        tmp1 == Get(s4, 4 * 0 + 2)
        tmp2 == Get(s4, 4 * 1 + 2)
        s5   == Set(s4, 4 * 0 + 2, Get(s4, 4 * 2 + 2))
        s6   == Set(s5, 4 * 1 + 2, Get(s5, 4 * 3 + 2))
        s7   == Set(s6, 4 * 2 + 2, tmp1)
        s8   == Set(s7, 4 * 3 + 2, tmp2)
        tmp3 == Get(s8, 4 * 3 + 3)
        s9   == Set(s8, 4 * 3 + 3, Get(s8, 4 * 2 + 3))
        s10  == Set(s9, 4 * 2 + 3, Get(s9, 4 * 1 + 3))
        s11  == Set(s10, 4 * 1 + 3, Get(s10, 4 * 0 + 3))
        s12  == Set(s11, 4 * 0 + 3, tmp3)
    IN  s12

\* inv_shift_rows leaving the second row as it is.
inv_shift_rows_SecondRowUnrotated(s0) ==
    << Get(s0, 0),  Get(s0, 1),  Get(s0, 10), Get(s0, 7),
       Get(s0, 4),  Get(s0, 5),  Get(s0, 14), Get(s0, 11),
       Get(s0, 8),  Get(s0, 9),  Get(s0, 2),  Get(s0, 15),
       Get(s0, 12), Get(s0, 13), Get(s0, 6),  Get(s0, 3) >>

\* inv_shift_rows rotating the rows to the left, as shift_rows does.
inv_shift_rows_RotatesLeft(s0) == shift_rows(s0)

\* State::inv_shift_rows, assignment by assignment.
inv_shift_rows(s0) ==
    LET tmp  == Get(s0, 4 * 3 + 1)
        s1   == Set(s0, 4 * 3 + 1, Get(s0, 4 * 2 + 1))
        s2   == Set(s1, 4 * 2 + 1, Get(s1, 4 * 1 + 1))
        s3   == Set(s2, 4 * 1 + 1, Get(s2, 4 * 0 + 1))
        s4   == Set(s3, 4 * 0 + 1, tmp)
        tmp1 == Get(s4, 4 * 0 + 2)
        tmp2 == Get(s4, 4 * 1 + 2)
        s5   == Set(s4, 4 * 0 + 2, Get(s4, 4 * 2 + 2))
        s6   == Set(s5, 4 * 1 + 2, Get(s5, 4 * 3 + 2))
        s7   == Set(s6, 4 * 2 + 2, tmp1)
        s8   == Set(s7, 4 * 3 + 2, tmp2)
        tmp3 == Get(s8, 4 * 0 + 3)
        s9   == Set(s8, 4 * 0 + 3, Get(s8, 4 * 1 + 3))
        s10  == Set(s9, 4 * 1 + 3, Get(s9, 4 * 2 + 3))
        s11  == Set(s10, 4 * 2 + 3, Get(s10, 4 * 3 + 3))
        s12  == Set(s11, 4 * 3 + 3, tmp3)
    IN  s12

\* mix_columns writing into column i the mix of the column after it.
RECURSIVE mix_columns_loop_NextColumn(_, _)
mix_columns_loop_NextColumn(state, i) ==
    IF Defined(state) /\ i < 4
    THEN mix_columns_loop_NextColumn(
             set_column(state, i, mix(column(state, (i + 1) % 4))), i + 1)
    ELSE state

\* State::mix_columns: for i in 0..4 { column(i).mix(); set_column(i, ..) }
RECURSIVE mix_columns_loop(_, _)
mix_columns_loop(state, i) ==
    IF Defined(state) /\ i < 4
    THEN mix_columns_loop(set_column(state, i, mix(column(state, i))), i + 1)
    ELSE state

mix_columns(state) == mix_columns_loop(state, 0)

\* State::inv_mix_columns
RECURSIVE inv_mix_columns_loop(_, _)
inv_mix_columns_loop(state, i) ==
    IF Defined(state) /\ i < 4
    THEN inv_mix_columns_loop(set_column(state, i, inv_mix(column(state, i))), i + 1)
    ELSE state

inv_mix_columns(state) == inv_mix_columns_loop(state, 0)

\* RoundKey::column taking every fourth byte from `index` on.
RoundKey_column_Strided(round_key, index) ==
    << Get(round_key, index), Get(round_key, index + 4),
       Get(round_key, index + 8), Get(round_key, index + 12) >>

\* RoundKey::column: the assertion on the index, then the slice
\* [index*4, index*4+4) of the round key.
RoundKey_column(round_key, index) ==
    IF ~(index <= 3)
    THEN Panicked("index needs to be in range 0..=3")
    ELSE SubSeq(round_key, index * 4 + 1, index * 4 + 4)

\* RoundKey::set_column: copy_from_slice into [index*4, index*4+4).
RoundKey_set_column(round_key, index, col) ==
    IF ~(index <= 3)
    THEN Panicked("index needs to be in range 0..=3")
    ELSE [round_key EXCEPT ![index * 4 + 1] = Get(col, 0),
                           ![index * 4 + 2] = Get(col, 1),
                           ![index * 4 + 3] = Get(col, 2),
                           ![index * 4 + 4] = Get(col, 3)]

\* The inner loop of add_round_key: column.0[j] ^= key_word[j] for j in 0..4.
RECURSIVE xor_key_word(_, _, _)
xor_key_word(col, key_word, j) ==
    IF Defined(col) /\ j < 4
    THEN xor_key_word(Set(col, j, Xor(Get(col, j), Get(key_word, j))), key_word, j + 1)
    ELSE col

\* State::add_round_key
RECURSIVE add_round_key_loop(_, _, _)
add_round_key_loop(state, round_key, i) ==
    IF Defined(state) /\ i < 4
    THEN add_round_key_loop(
             set_column(state, i,
                        xor_key_word(column(state, i), RoundKey_column(round_key, i), 0)),
             round_key, i + 1)
    ELSE state

add_round_key(state, round_key) == add_round_key_loop(state, round_key, 0)

(***************************************************************************)
(* mod key: the key schedule.                                              *)
(***************************************************************************)
\* ROUND_CONSTANTS doubled by a shift of the byte alone, with no reduction
\* after 0x80.
ROUND_CONSTANTS_ShiftedWithoutReduction ==
    << <<1, 0, 0, 0>>,
       <<2, 0, 0, 0>>,
       <<4, 0, 0, 0>>,
       <<8, 0, 0, 0>>,
       <<16, 0, 0, 0>>,
       <<32, 0, 0, 0>>,
       <<64, 0, 0, 0>>,
       <<128, 0, 0, 0>>,
       <<0, 0, 0, 0>>,
       <<0, 0, 0, 0>> >>

\* const ROUND_CONSTANTS: [Rcon; 10]
ROUND_CONSTANTS ==
    << <<1, 0, 0, 0>>,
       <<2, 0, 0, 0>>,
       <<4, 0, 0, 0>>,
       <<8, 0, 0, 0>>,
       <<16, 0, 0, 0>>,
       <<32, 0, 0, 0>>,
       <<64, 0, 0, 0>>,
       <<128, 0, 0, 0>>,
       <<27, 0, 0, 0>>,
       <<54, 0, 0, 0>> >>

\* rot_word rotating to the right: [a,b,c,d] -> [d,a,b,c].
rot_word_Right(word) ==
    << Get(word, 3), Get(word, 0), Get(word, 1), Get(word, 2) >>

\* rot_word, assignment by assignment.
rot_word(word) ==
    LET tmp == Get(word, 0)
        w1  == Set(word, 0, Get(word, 1))
        w2  == Set(w1, 1, Get(w1, 2))
        w3  == Set(w2, 2, Get(w2, 3))
        w4  == Set(w3, 3, tmp)
    IN  w4

\* sub_word: for i in 0..4 { word[i] = SBOX_ENCRYPT[word[i]] }
RECURSIVE sub_word_loop(_, _)
sub_word_loop(word, i) ==
    IF Defined(word) /\ i < 4
    THEN sub_word_loop(Set(word, i, Get(SBOX_ENCRYPT, Get(word, i))), i + 1)
    ELSE word

sub_word(word) == sub_word_loop(word, 0)

\* rcon leaving the word as it is.
rcon_ConstantDropped(word, constant) == word

rcon(word, constant) == add_word(word, constant)

\* Key128::from_bytes wraps the 16 bytes.
Key128_from_bytes(value) == value

\* RoundKey([0; 16])
ZeroRoundKey == <<0, 0, 0, 0, 0, 0, 0, 0, 0, 0, 0, 0, 0, 0, 0, 0>>

\* RoundKeys128::len giving the index of the last round key.
RoundKeys128_len_LastIndex(round_keys) == Len(round_keys) - 1

\* RoundKeys128::len giving the number of rounds that mix the columns.
RoundKeys128_len_MixingRounds(round_keys) == Len(round_keys) - 2

\* RoundKeys128::len
RoundKeys128_len(round_keys) == Len(round_keys)

\* The body of `for i in 1..11` of Key128::expand, from the loop state
\* (rounds, previous_round_key, i) to the array returned.
RECURSIVE expand_loop(_, _, _)
expand_loop(rounds, previous_round_key, i) ==
    IF Defined(rounds) /\ Defined(previous_round_key) /\ i < 11
    THEN LET col0 == LET c1 == RoundKey_column(previous_round_key, 3)
                         c2 == rot_word(c1)
                         c3 == sub_word(c2)
                         c4 == rcon(c3, Get(ROUND_CONSTANTS, i - 1))
                         previous_column == RoundKey_column(Get(rounds, i - 1), 0)
                     IN  add_word(c4, previous_column)
             k1   == RoundKey_set_column(ZeroRoundKey, 0, col0)
             k2   == RoundKey_set_column(k1, 1,
                         add_word(RoundKey_column(k1, 0),
                                  RoundKey_column(previous_round_key, 1)))
             k3   == RoundKey_set_column(k2, 2,
                         add_word(RoundKey_column(k2, 1),
                                  RoundKey_column(previous_round_key, 2)))
             k4   == RoundKey_set_column(k3, 3,
                         add_word(RoundKey_column(k3, 2),
                                  RoundKey_column(previous_round_key, 3)))
         IN  expand_loop(Set(rounds, i, k4), k4, i + 1)
    ELSE rounds

\* Key128::expand without `rounds[0] = RoundKey(self.0)`.
expand_FirstRoundKeyUnset(key) ==
    LET rounds0 == << ZeroRoundKey, ZeroRoundKey, ZeroRoundKey, ZeroRoundKey,
                      ZeroRoundKey, ZeroRoundKey, ZeroRoundKey, ZeroRoundKey,
                      ZeroRoundKey, ZeroRoundKey, ZeroRoundKey >>
    IN  expand_loop(rounds0, key, 1)

\* Key128::expand
expand(key) ==
    LET rounds0 == << ZeroRoundKey, ZeroRoundKey, ZeroRoundKey, ZeroRoundKey,
                      ZeroRoundKey, ZeroRoundKey, ZeroRoundKey, ZeroRoundKey,
                      ZeroRoundKey, ZeroRoundKey, ZeroRoundKey >>
        rounds1 == Set(rounds0, 0, key)
    IN  expand_loop(rounds1, key, 1)

(***************************************************************************)
(* The cipher driver.                                                      *)
(***************************************************************************)
\* One pass of the loop body of cipher.
cipher_round(state, round_key) ==
    add_round_key(mix_columns(shift_rows(sub_bytes(state))), round_key)

\* for i in 1..(round_keys.len() - 1)
RECURSIVE cipher_loop(_, _, _)
cipher_loop(state, round_keys, i) ==
    IF Defined(state) /\ i < RoundKeys128_len(round_keys) - 1
    THEN cipher_loop(cipher_round(state, Get(round_keys, i)), round_keys, i + 1)
    ELSE state

cipher(input, round_keys) ==
    LET s0 == add_round_key(from_bytes(input), Get(round_keys, 0))
        s1 == cipher_loop(s0, round_keys, 1)
        s2 == add_round_key(shift_rows(sub_bytes(s1)),
                            Get(round_keys, RoundKeys128_len(round_keys) - 1))
    IN  into_array(s2)

\* One pass of the loop body of inv_cipher.
inv_cipher_round(state, round_key) ==
    inv_mix_columns(add_round_key(inv_sub_bytes(inv_shift_rows(state)), round_key))

\* for i in (1..(round_keys.len() - 1)).rev()
RECURSIVE inv_cipher_loop(_, _, _)
inv_cipher_loop(state, round_keys, i) ==
    IF Defined(state) /\ i >= 1
    THEN inv_cipher_loop(inv_cipher_round(state, Get(round_keys, i)), round_keys, i - 1)
    ELSE state

inv_cipher(input, round_keys) ==
    LET s0 == add_round_key(from_bytes(input),
                            Get(round_keys, RoundKeys128_len(round_keys) - 1))
        s1 == inv_cipher_loop(s0, round_keys, RoundKeys128_len(round_keys) - 2)
        s2 == add_round_key(inv_sub_bytes(inv_shift_rows(s1)), Get(round_keys, 0))
    IN  into_array(s2)

(***************************************************************************)
(* ECB mode.                                                               *)
(***************************************************************************)
\* chunks as slice.chunks_exact(size) would be: the elements after the last
\* whole chunk are left out.
RECURSIVE chunks_DropsRemainder(_, _)
chunks_DropsRemainder(slice, size) ==
    IF Len(slice) < size
    THEN <<>>
    ELSE <<SubSeq(slice, 1, size)>>
         \o chunks_DropsRemainder(SubSeq(slice, size + 1, Len(slice)), size)

\* slice.chunks(size): consecutive chunks of `size` elements; the last chunk
\* is shorter when the length is not a multiple of `size`.
RECURSIVE chunks(_, _)
chunks(slice, size) ==
    IF Len(slice) = 0
    THEN <<>>
    ELSE IF Len(slice) <= size
         THEN <<slice>>
         ELSE <<SubSeq(slice, 1, size)>>
              \o chunks(SubSeq(slice, size + 1, Len(slice)), size)

\* extend_from_slice putting the new elements in front.
extend_from_slice_Prepends(vec, other) == other \o vec

\* Vec::extend_from_slice: the elements of `other` appended to `vec`.
extend_from_slice(vec, other) == vec \o other

\* decrypt_chunk with chaining: every block after the first is combined
\* with the block decrypted before it.
decrypt_chunk_Chained(output, chunk, round_keys) ==
    extend_from_slice(output,
        IF Len(output) = 0
        THEN inv_cipher(chunk, round_keys)
        ELSE add_round_key(inv_cipher(chunk, round_keys),
                           SubSeq(output, Len(output) - 15, Len(output))))

\* The body of the loop of decrypt_ecb for a chunk of 16 bytes:
\* let decrypted = inv_cipher(chunk, &round_keys);
\* output.extend_from_slice(&decrypted);
decrypt_chunk(output, chunk, round_keys) ==
    extend_from_slice(output, inv_cipher(chunk, round_keys))

\* `for chunk in ciphertext.chunks(16)` of decrypt_ecb; n chunks have been
\* decrypted into output.  chunk.try_into() fails on a chunk that is not 16
\* bytes long and expect panics with its message, ": " and the Debug of the
\* TryFromSliceError.
RECURSIVE decrypt_ecb_loop(_, _, _, _)
decrypt_ecb_loop(chunk_list, round_keys, output, n) ==
    IF Defined(output) /\ n < Len(chunk_list)
    THEN LET chunk == Get(chunk_list, n)
         IN  IF Len(chunk) # 16
             THEN Panicked("input length needs to be a multiple of 16: TryFromSliceError(())")
             ELSE decrypt_ecb_loop(chunk_list, round_keys,
                                   decrypt_chunk(output, chunk, round_keys), n + 1)
    ELSE Returned(output)

decrypt_ecb(ciphertext, key) ==
    LET round_keys == expand(key)
    IN  decrypt_ecb_loop(chunks(ciphertext, 16), round_keys, <<>>, 0)

(***************************************************************************)
(* mod base64 (src/src/base64.rs).  A char is a string of length one, a    *)
(* str the sequence of its chars.                                          *)
(***************************************************************************)
\* The alphabet of Base64Char::sextet_value and Base64Char::try_from_sextet:
\* the char of the sextet v is Get(Base64Alphabet, v).
Base64Alphabet ==
    << "A", "B", "C", "D", "E", "F", "G", "H", "I", "J", "K", "L", "M",
       "N", "O", "P", "Q", "R", "S", "T", "U", "V", "W", "X", "Y", "Z",
       "a", "b", "c", "d", "e", "f", "g", "h", "i", "j", "k", "l", "m",
       "n", "o", "p", "q", "r", "s", "t", "u", "v", "w", "x", "y", "z",
       "0", "1", "2", "3", "4", "5", "6", "7", "8", "9", "+", "/" >>

\* Base64Char::PLACEHOLDER
PLACEHOLDER == "="

\* A Result: Ok(value) or Err(Error(message)).
Ok(v) == [ok |-> TRUE, value |-> v, message |-> ""]

Err(m) == [ok |-> FALSE, value |-> <<>>, message |-> m]

\* An Option<u8> as a sequence: None is <<>>, Some(v) is <<v>>.
None == <<>>

Some(v) == <<v>>

\* Base64Char::sextet_value
sextet_value(value) ==
    IF \E v \in 0..63 : Get(Base64Alphabet, v) = value
    THEN Ok(Some(CHOOSE v \in 0..63 : Get(Base64Alphabet, v) = value))
    ELSE IF value = PLACEHOLDER
         THEN Ok(None)
         ELSE Err("invalid base64 character: " \o value)

\* The decimal digits that Display and Debug write for an unsigned integer,
\* as format!("{value}") does for a u8.
RECURSIVE Display_uint(_)
Display_uint(value) ==
    LET digits == <<"0", "1", "2", "3", "4", "5", "6", "7", "8", "9">>
    IN  IF value < 10
        THEN Get(digits, value)
        ELSE Display_uint(value \div 10) \o Get(digits, value % 10)

\* Base64Char::try_from_sextet
try_from_sextet(value) ==
    IF value \in 0..63
    THEN Ok(Get(Base64Alphabet, value))
    ELSE Err("invalid base64 character: " \o Display_uint(value))

\* Result::expect on a Result<_, Error>: the value of Ok; on Err a panic
\* with the message given, ": " and the Debug of the Error.
expect(result, msg) ==
    IF result.ok
    THEN result.value
    ELSE Panicked(msg \o ": Error(\"" \o result.message \o "\")")

\* encode_three_bytes: b is the u32 from_be_bytes([b1, b2, b3, 0]), that is
\* 256 * b24; the mask and shift of sextet k select six bits of b, which are
\* (b24 div 2^(24 - 6k)) mod 64.
encode_three_bytes(b1, b2, b3) ==
    LET b24 == b1 * 65536 + b2 * 256 + b3
    IN  << expect(try_from_sextet((b24 \div 262144) % 64), "invalid base64 value"),
           expect(try_from_sextet((b24 \div 4096) % 64), "invalid base64 value"),
           expect(try_from_sextet((b24 \div 64) % 64), "invalid base64 value"),
           expect(try_from_sextet(b24 % 64), "invalid base64 value") >>

\* encode_two_bytes
encode_two_bytes(b1, b2) ==
    LET b == b1 * 256 + b2
    IN  << expect(try_from_sextet((b \div 1024) % 64), "invalid base64 value"),
           expect(try_from_sextet((b \div 16) % 64), "invalid base64 value"),
           expect(try_from_sextet(((b % 16) * 4) % 256), "invalid base64 value"),
           PLACEHOLDER >>

\* encode_one_byte
encode_one_byte(b1) ==
    << expect(try_from_sextet((b1 \div 4) % 64), "invalid base64 value"),
       expect(try_from_sextet(((b1 % 4) * 16) % 256), "invalid base64 value"),
       PLACEHOLDER,
       PLACEHOLDER >>

\* The flat_map of bytes_to_base64_string over the chunks of three bytes.
RECURSIVE encode_chunks(_, _)
encode_chunks(byte_chunks, n) ==
    IF n < Len(byte_chunks)
    THEN LET byte_chunk == Get(byte_chunks, n)
             encoded ==
                 IF Len(byte_chunk) = 1
                 THEN encode_one_byte(Get(byte_chunk, 0))
                 ELSE IF Len(byte_chunk) = 2
                      THEN encode_two_bytes(Get(byte_chunk, 0), Get(byte_chunk, 1))
                      ELSE encode_three_bytes(Get(byte_chunk, 0), Get(byte_chunk, 1),
                                              Get(byte_chunk, 2))
         IN  encoded \o encode_chunks(byte_chunks, n + 1)
    ELSE <<>>

bytes_to_base64_string(data) == encode_chunks(chunks(data, 3), 0)

\* The `|` operator on u8.
RECURSIVE BitOr(_, _)
BitOr(a, b) ==
    IF a = 0 THEN b
    ELSE IF b = 0 THEN a
    ELSE (IF a % 2 = 1 \/ b % 2 = 1 THEN 1 ELSE 0) + 2 * BitOr(a \div 2, b \div 2)

\* The `&` operator on u8.
RECURSIVE BitAnd(_, _)
BitAnd(a, b) ==
    IF a = 0 \/ b = 0 THEN 0
    ELSE (IF a % 2 = 1 /\ b % 2 = 1 THEN 1 ELSE 0) + 2 * BitAnd(a \div 2, b \div 2)

\* `a << n` and `a >> n` on u8, n < 8.
Shl(a, n) == (a * (2 ^ n)) % 256

Shr(a, n) == a \div (2 ^ n)

\* char::is_whitespace: the 25 chars of the Unicode property White_Space,
\* U+0009..U+000D, U+0020, U+0085, U+00A0, U+1680, U+2000..U+200A, U+2028,
\* U+2029, U+202F, U+205F and U+3000.  A char is a string of the model: the
\* char itself, or, for a char that has no place in a string of TLA+, its
\* escape in Rust (U+000B is the string of the 5 characters \u{b}).
is_whitespace(c) ==
    c \in { "\t", "\n", "\\u{b}", "\f", "\r", " ", "\\u{85}", "\\u{a0}", "\\u{1680}",
            "\\u{2000}", "\\u{2001}", "\\u{2002}", "\\u{2003}", "\\u{2004}",
            "\\u{2005}", "\\u{2006}", "\\u{2007}", "\\u{2008}", "\\u{2009}",
            "\\u{200a}", "\\u{2028}", "\\u{2029}", "\\u{202f}", "\\u{205f}",
            "\\u{3000}" }

\* The closure decode_str maps over the chunks of four chars.
decode_chunk(chunk) ==
    IF Len(chunk) # 4
    THEN Err("invalid input length")
    ELSE
    LET r1 == sextet_value(Get(chunk, 0))
        r2 == sextet_value(Get(chunk, 1))
        r3 == sextet_value(Get(chunk, 2))
        r4 == sextet_value(Get(chunk, 3))
    IN  IF ~r1.ok THEN r1
        ELSE IF r1.value = None THEN Err("invalid format, too much padding")
        ELSE IF ~r2.ok THEN r2
        ELSE IF r2.value = None THEN Err("invalid format, too much padding")
        ELSE IF ~r3.ok THEN r3
        ELSE IF ~r4.ok THEN r4
        ELSE IF r3.value = None /\ r4.value # None THEN Err("invalid padding")
        ELSE
        LET sextet1 == r1.value[1]
            sextet2 == r2.value[1]
            byte1   == BitOr(Shl(sextet1, 2), Shr(sextet2, 4))
        IN  IF r3.value = None
            THEN Ok(<<byte1>>)
            ELSE
            LET sextet3 == r3.value[1]
                byte2   == BitOr(Shl(BitAnd(sextet2, 15), 4),
                                 Shr(BitAnd(sextet3, 60), 2))
            IN  IF r4.value = None
                THEN Ok(<<byte1, byte2>>)
                ELSE
                LET sextet4 == r4.value[1]
                    byte3   == BitOr(Shl(BitAnd(sextet3, 3), 6), sextet4)
                IN  Ok(<<byte1, byte2, byte3>>)

\* collect::<Result<Vec<Vec<u8>>, Error>>()? and flatten: the first error in
\* chunk order, or the bytes of all chunks in order.
RECURSIVE decode_chunks(_, _, _)
decode_chunks(char_chunks, decoded_bytes, n) ==
    IF Defined(decoded_bytes) /\ n < Len(char_chunks)
    THEN LET r == decode_chunk(Get(char_chunks, n))
         IN  IF r.ok
             THEN decode_chunks(char_chunks, decoded_bytes \o r.value, n + 1)
             ELSE r
    ELSE Ok(decoded_bytes)

\* base64::decode_str
decode_str(str) ==
    decode_chunks(chunks(SelectSeq(str, LAMBDA c : ~is_whitespace(c)), 4), <<>>, 0)

(***************************************************************************)
(* String::from_utf8 of the standard library.                              *)
(***************************************************************************)
\* The validation of the bytes from position p on (p = 0 is the first
\* byte): ok, or the Utf8Error, with valid_up_to the position of the first
\* byte of the sequence that is not well-formed and error_len the number of
\* bytes of it to skip, None when the input ends within the sequence.
RECURSIVE run_utf8_validation(_, _)
run_utf8_validation(v, p) ==
    IF p >= Len(v)
    THEN [ok |-> TRUE, valid_up_to |-> Len(v), error_len |-> None]
    ELSE
    LET first == Get(v, p)
        err(error_len) == [ok |-> FALSE, valid_up_to |-> p, error_len |-> error_len]
        Has(k) == p + k < Len(v)
        In(k, lo, hi) == Get(v, p + k) \in lo..hi
        Cont(k) == In(k, 128, 191)
        width == IF first \in 194..223 THEN 2
                 ELSE IF first \in 224..239 THEN 3
                 ELSE IF first \in 240..244 THEN 4
                 ELSE 0
        second == IF first = 224 THEN In(1, 160, 191)
                  ELSE IF first = 237 THEN In(1, 128, 159)
                  ELSE IF first = 240 THEN In(1, 144, 191)
                  ELSE IF first = 244 THEN In(1, 128, 143)
                  ELSE Cont(1)
    IN  IF first < 128 THEN run_utf8_validation(v, p + 1)
        ELSE IF width = 2
             THEN IF ~Has(1) THEN err(None)
                  ELSE IF ~Cont(1) THEN err(Some(1))
                  ELSE run_utf8_validation(v, p + 2)
        ELSE IF width = 3
             THEN IF ~Has(1) THEN err(None)
                  ELSE IF ~second THEN err(Some(1))
                  ELSE IF ~Has(2) THEN err(None)
                  ELSE IF ~Cont(2) THEN err(Some(2))
                  ELSE run_utf8_validation(v, p + 3)
        ELSE IF width = 4
             THEN IF ~Has(1) THEN err(None)
                  ELSE IF ~second THEN err(Some(1))
                  ELSE IF ~Has(2) THEN err(None)
                  ELSE IF ~Cont(2) THEN err(Some(2))
                  ELSE IF ~Has(3) THEN err(None)
                  ELSE IF ~Cont(3) THEN err(Some(3))
                  ELSE run_utf8_validation(v, p + 4)
        ELSE err(Some(1))

\* String::from_utf8(vec): the String of the bytes, or the FromUtf8Error
\* that holds the bytes and the Utf8Error.
from_utf8(vec) ==
    LET r == run_utf8_validation(vec, 0)
    IN  IF r.ok
        THEN [ok |-> TRUE, value |-> vec]
        ELSE [ok |-> FALSE,
              error |-> [bytes |-> vec,
                         error |-> [valid_up_to |-> r.valid_up_to,
                                    error_len |-> r.error_len]]]

\* The Debug of a FromUtf8Error, as derived: the struct with its fields, the
\* bytes as a list and error_len as an Option.
Debug_FromUtf8Error(e) ==
    LET RECURSIVE list(_, _)
        list(bytes, n) ==
            IF n >= Len(bytes) THEN ""
            ELSE (IF n = 0 THEN "" ELSE ", ") \o Display_uint(Get(bytes, n))
                     \o list(bytes, n + 1)
        option(o) == IF o = None THEN "None" ELSE "Some(" \o Display_uint(o[1]) \o ")"
    IN  "FromUtf8Error { bytes: [" \o list(e.bytes, 0) \o "], error: Utf8Error { valid_up_to: "
            \o Display_uint(e.error.valid_up_to) \o ", error_len: "
            \o option(e.error.error_len) \o " } }"

(***************************************************************************)
(* Inputs.                                                                 *)
(***************************************************************************)
\* Key and plaintext of test_encrypt_block_from_spec and test_expand_128.
FipsKey == <<43, 126, 21, 22, 40, 174, 210, 166, 171, 247, 21, 136, 9, 207, 79, 60>>

FipsPlaintext == <<50, 67, 246, 168, 136, 90, 48, 141, 49, 49, 152, 162, 224, 55, 7, 52>>

\* "YELLOW SUBMARINE".as_bytes()
YellowSubmarine == <<89, 69, 76, 76, 79, 87, 32, 83, 85, 66, 77, 65, 82, 73, 78, 69>>

\* "SUPER TOP SECRET".as_bytes()
SuperTopSecret == <<83, 85, 80, 69, 82, 32, 84, 79, 80, 32, 83, 69, 67, 82, 69, 84>>

\* expected_ciphertext of test_encrypt_block, ciphertext of test_decrypt_block.
SuperTopSecretCiphertext ==
    <<74, 91, 226, 81, 142, 64, 163, 123, 219, 78, 181, 46, 131, 193, 72, 5>>

\* A 16-byte array for every n: byte k is (n * 83 + k * (2 * n + 29)) mod 256.
PatternByte(n, k) == (n * 83 + k * (2 * n + 29)) % 256

Pattern(n) ==
    << PatternByte(n, 0), PatternByte(n, 1), PatternByte(n, 2), PatternByte(n, 3),
       PatternByte(n, 4), PatternByte(n, 5), PatternByte(n, 6), PatternByte(n, 7),
       PatternByte(n, 8), PatternByte(n, 9), PatternByte(n, 10), PatternByte(n, 11),
       PatternByte(n, 12), PatternByte(n, 13), PatternByte(n, 14), PatternByte(n, 15) >>

\* Number of pattern keys and of pattern blocks the model draws its inputs from.
NumKeyPatterns == 2

NumBlockPatterns == 3

\* The keys and the blocks of the tests, and pattern arrays.
Keys == {FipsKey, YellowSubmarine} \cup {Pattern(3 * n) : n \in 0..NumKeyPatterns - 1}

Blocks ==
    {FipsPlaintext, SuperTopSecret, SuperTopSecretCiphertext}
    \cup {Pattern(5 * n) : n \in 0..NumBlockPatterns - 1}

(***************************************************************************)
(* The block cipher as a state machine: a caller builds a key from 16      *)
(* bytes, expands it, and passes one block through cipher and then         *)
(* inv_cipher, or through inv_cipher and then cipher.  Each call of a      *)
(* State method in cipher and inv_cipher is one step.                      *)
(***************************************************************************)
VARIABLES
    pc,          \* the statement the caller, cipher or inv_cipher is at
    key,         \* the 16 key bytes
    input,       \* the 16-byte block given to the first call
    first,       \* the function called first: "cipher" or "inv_cipher"
    round_keys,  \* the RoundKeys128 returned by expand, <<>> before
    state,       \* the State of the running cipher or inv_cipher
    i,           \* the loop variable of the running cipher or inv_cipher
    out1,        \* the array returned by the first call, <<>> before
    out2,        \* the array returned by the second call, <<>> before
    trace,       \* the function running or run last and the State methods it
                 \* has called so far, in call order
    keys_used    \* the indices of the round keys its add_round_key calls
                 \* were given, in call order

\* The variables of the callers of decrypt_ecb (section "decrypt_ecb as a
\* state machine" below).
VARIABLES
    e_pc,          \* the statement the caller or decrypt_ecb is at
    e_key,         \* the 16 key bytes of both calls
    e_ciphertext,  \* the two ciphertexts: that of call 1 and that of call 2
    e_call,        \* the running call, 1 or 2
    e_round_keys,  \* round_keys of the running call, <<>> before
    e_n,           \* the number of chunks the loop of the running call took
    e_output,      \* output of the running call
    e_result       \* the outcomes of the two calls, NotCalled before

\* The variables of main of the aes command (section "The aes command"
\* below).
VARIABLES
    m_pc,        \* the statement main is at
    m_key_arg,   \* decrypt_args.key.as_bytes()
    m_file,      \* what fs::read_to_string(decrypt_args.path) finds
    m_input,     \* input, <<>> before
    m_decoded,   \* decoded, <<>> before
    m_key,       \* the Key128 built from the argument, <<>> before
    m_decrypted, \* decrypted, <<>> before
    m_calls,     \* the functions main has called so far, in call order
    m_stdout,    \* the bytes written to standard output
    m_exit,      \* "running", or how the process ended: "ok", "error", "panic"
    m_message    \* the message of the Error returned or of the panic

\* The variables of the callers of one function after the other (section
\* "Calls of the functions of the cipher" below).
VARIABLES
    f_calls,  \* the functions the caller calls, in call order
    f_arg,    \* the argument of the first call
    f_key,    \* the round key given to every call that takes one, <<>> if none
    f_index,  \* the index given to every call that takes one, 0 if none
    f_column, \* the Column given to every call that takes one, <<>> if none
    f_out     \* the values the calls made so far returned, in call order

\* The variables of the caller of gf::mult, loop pass by loop pass (section
\* "The loop of gf::mult" below).
VARIABLES
    g_pc,     \* "idle", "loop" (at the head of the while loop) or "returned"
    g_arg,    \* the arguments <<a, b>> of the call
    g_a,      \* let mut a
    g_b,      \* let mut b
    g_result, \* let mut result
    g_passes  \* the number of passes through the loop body so far

cipher_vars ==
    <<pc, key, input, first, round_keys, state, i, out1, out2, trace, keys_used>>

fn_vars == <<f_calls, f_arg, f_key, f_index, f_column, f_out>>

gf_vars == <<g_pc, g_arg, g_a, g_b, g_result, g_passes>>

ecb_vars ==
    <<e_pc, e_key, e_ciphertext, e_call, e_round_keys, e_n, e_output, e_result>>

main_vars ==
    <<m_pc, m_key_arg, m_file, m_input, m_decoded, m_key, m_decrypted, m_calls,
      m_stdout, m_exit, m_message>>

vars == <<cipher_vars, ecb_vars, main_vars, fn_vars, gf_vars>>

\* The outcome of a call that has not been made.
NotCalled == [tag |-> "none", value |-> <<>>, message |-> ""]

\* No caller of the block cipher runs.
CipherIdle ==
    /\ pc = "idle"
    /\ key = <<>>
    /\ input = <<>>
    /\ first = "none"
    /\ round_keys = <<>>
    /\ state = <<>>
    /\ i = 0
    /\ out1 = <<>>
    /\ out2 = <<>>
    /\ trace = <<>>
    /\ keys_used = <<>>

\* No caller of decrypt_ecb runs.
EcbIdle ==
    /\ e_pc = "idle"
    /\ e_key = <<>>
    /\ e_ciphertext = <<>>
    /\ e_call = 0
    /\ e_round_keys = <<>>
    /\ e_n = 0
    /\ e_output = <<>>
    /\ e_result = <<>>

\* The aes command does not run.
MainIdle ==
    /\ m_pc = "idle"
    /\ m_key_arg = <<>>
    /\ m_file = Err("")
    /\ m_input = <<>>
    /\ m_decoded = <<>>
    /\ m_key = <<>>
    /\ m_decrypted = <<>>
    /\ m_calls = <<>>
    /\ m_stdout = <<>>
    /\ m_exit = "running"
    /\ m_message = ""

\* No caller of a single function runs.
FnIdle ==
    /\ f_calls = <<>>
    /\ f_arg = <<>>
    /\ f_key = <<>>
    /\ f_index = 0
    /\ f_column = <<>>
    /\ f_out = <<>>

\* No caller of gf::mult, loop pass by loop pass, runs.
GfIdle ==
    /\ g_pc = "idle"
    /\ g_arg = <<>>
    /\ g_a = 0
    /\ g_b = 0
    /\ g_result = 0
    /\ g_passes = 0

Init ==
    /\ pc = "expand"
    /\ key \in Keys
    /\ input \in Blocks
    /\ first \in {"cipher", "inv_cipher"}
    /\ round_keys = <<>>
    /\ state = <<>>
    /\ i = 0
    /\ out1 = <<>>
    /\ out2 = <<>>
    /\ trace = <<>>
    /\ keys_used = <<>>
    /\ EcbIdle
    /\ MainIdle
    /\ FnIdle
    /\ GfIdle

\* The block the running call was given: the input in the first call, the
\* result of the first call in the second.
Argument == IF out1 = <<>> THEN input ELSE out1

\* The running call returns `result`: the first call hands it to the other
\* function, the second ends the run.
Return(result, other) ==
    IF out1 = <<>>
    THEN out1' = result /\ out2' = out2 /\ pc' = other
    ELSE out1' = out1 /\ out2' = result /\ pc' = "done"

\* let round_keys = Key128::from_bytes(key).expand();
Expand ==
    /\ pc = "expand"
    /\ round_keys' = expand(Key128_from_bytes(key))
    /\ pc' = first
    /\ UNCHANGED <<key, input, first, state, i, out1, out2, trace, keys_used,
                   ecb_vars, main_vars, fn_vars, gf_vars>>

\* cipher: State::from_bytes(input); state.add_round_key(&round_keys[0]);
\* then the loop head for i = 1.
CipherBegin ==
    /\ pc = "cipher"
    /\ state' = add_round_key(from_bytes(Argument), Get(round_keys, 0))
    /\ i' = 1
    /\ pc' = IF 1 < RoundKeys128_len(round_keys) - 1
             THEN "c_sub_bytes" ELSE "c_last_sub_bytes"
    /\ trace' = <<"cipher", "add_round_key">>
    /\ keys_used' = <<0>>
    /\ UNCHANGED <<key, input, first, round_keys, out1, out2,
                   ecb_vars, main_vars, fn_vars, gf_vars>>

CipherSubBytes ==
    /\ pc = "c_sub_bytes"
    /\ state' = sub_bytes(state)
    /\ pc' = "c_shift_rows"
    /\ trace' = Append(trace, "sub_bytes")
    /\ UNCHANGED <<key, input, first, round_keys, i, out1, out2, keys_used,
                   ecb_vars, main_vars, fn_vars, gf_vars>>

CipherShiftRows ==
    /\ pc = "c_shift_rows"
    /\ state' = shift_rows(state)
    /\ pc' = "c_mix_columns"
    /\ trace' = Append(trace, "shift_rows")
    /\ UNCHANGED <<key, input, first, round_keys, i, out1, out2, keys_used,
                   ecb_vars, main_vars, fn_vars, gf_vars>>

CipherMixColumns ==
    /\ pc = "c_mix_columns"
    /\ state' = mix_columns(state)
    /\ pc' = "c_add_round_key"
    /\ trace' = Append(trace, "mix_columns")
    /\ UNCHANGED <<key, input, first, round_keys, i, out1, out2, keys_used,
                   ecb_vars, main_vars, fn_vars, gf_vars>>

\* state.add_round_key(&round_keys[i]); then the loop head for i + 1.
CipherAddRoundKey ==
    /\ pc = "c_add_round_key"
    /\ state' = add_round_key(state, Get(round_keys, i))
    /\ i' = i + 1
    /\ pc' = IF i + 1 < RoundKeys128_len(round_keys) - 1
             THEN "c_sub_bytes" ELSE "c_last_sub_bytes"
    /\ trace' = Append(trace, "add_round_key")
    /\ keys_used' = Append(keys_used, i)
    /\ UNCHANGED <<key, input, first, round_keys, out1, out2,
                   ecb_vars, main_vars, fn_vars, gf_vars>>

CipherLastSubBytes ==
    /\ pc = "c_last_sub_bytes"
    /\ state' = sub_bytes(state)
    /\ pc' = "c_last_shift_rows"
    /\ trace' = Append(trace, "sub_bytes")
    /\ UNCHANGED <<key, input, first, round_keys, i, out1, out2, keys_used,
                   ecb_vars, main_vars, fn_vars, gf_vars>>

CipherLastShiftRows ==
    /\ pc = "c_last_shift_rows"
    /\ state' = shift_rows(state)
    /\ pc' = "c_last_add_round_key"
    /\ trace' = Append(trace, "shift_rows")
    /\ UNCHANGED <<key, input, first, round_keys, i, out1, out2, keys_used,
                   ecb_vars, main_vars, fn_vars, gf_vars>>

\* state.add_round_key(&round_keys[round_keys.len() - 1]); state.into_array()
CipherLastAddRoundKey ==
    /\ pc = "c_last_add_round_key"
    /\ state' = add_round_key(state, Get(round_keys, RoundKeys128_len(round_keys) - 1))
    /\ Return(into_array(state'), "inv_cipher")
    /\ trace' = trace \o <<"add_round_key", "into_array">>
    /\ keys_used' = Append(keys_used, RoundKeys128_len(round_keys) - 1)
    /\ UNCHANGED <<key, input, first, round_keys, i,
                   ecb_vars, main_vars, fn_vars, gf_vars>>

\* inv_cipher: State::from_bytes(input);
\* state.add_round_key(&round_keys[round_keys.len() - 1]); then the loop head
\* for the first i of (1..(round_keys.len() - 1)).rev().
InvCipherBegin ==
    /\ pc = "inv_cipher"
    /\ state' = add_round_key(from_bytes(Argument),
                              Get(round_keys, RoundKeys128_len(round_keys) - 1))
    /\ i' = RoundKeys128_len(round_keys) - 2
    /\ pc' = IF RoundKeys128_len(round_keys) - 2 >= 1
             THEN "d_inv_shift_rows" ELSE "d_last_inv_shift_rows"
    /\ trace' = <<"inv_cipher", "add_round_key">>
    /\ keys_used' = <<RoundKeys128_len(round_keys) - 1>>
    /\ UNCHANGED <<key, input, first, round_keys, out1, out2,
                   ecb_vars, main_vars, fn_vars, gf_vars>>

InvCipherInvShiftRows ==
    /\ pc = "d_inv_shift_rows"
    /\ state' = inv_shift_rows(state)
    /\ pc' = "d_inv_sub_bytes"
    /\ trace' = Append(trace, "inv_shift_rows")
    /\ UNCHANGED <<key, input, first, round_keys, i, out1, out2, keys_used,
                   ecb_vars, main_vars, fn_vars, gf_vars>>

InvCipherInvSubBytes ==
    /\ pc = "d_inv_sub_bytes"
    /\ state' = inv_sub_bytes(state)
    /\ pc' = "d_add_round_key"
    /\ trace' = Append(trace, "inv_sub_bytes")
    /\ UNCHANGED <<key, input, first, round_keys, i, out1, out2, keys_used,
                   ecb_vars, main_vars, fn_vars, gf_vars>>

InvCipherAddRoundKey ==
    /\ pc = "d_add_round_key"
    /\ state' = add_round_key(state, Get(round_keys, i))
    /\ pc' = "d_inv_mix_columns"
    /\ trace' = Append(trace, "add_round_key")
    /\ keys_used' = Append(keys_used, i)
    /\ UNCHANGED <<key, input, first, round_keys, i, out1, out2,
                   ecb_vars, main_vars, fn_vars, gf_vars>>

\* state.inv_mix_columns(); then the loop head for i - 1.
InvCipherInvMixColumns ==
    /\ pc = "d_inv_mix_columns"
    /\ state' = inv_mix_columns(state)
    /\ i' = i - 1
    /\ pc' = IF i - 1 >= 1 THEN "d_inv_shift_rows" ELSE "d_last_inv_shift_rows"
    /\ trace' = Append(trace, "inv_mix_columns")
    /\ UNCHANGED <<key, input, first, round_keys, out1, out2, keys_used,
                   ecb_vars, main_vars, fn_vars, gf_vars>>

InvCipherLastInvShiftRows ==
    /\ pc = "d_last_inv_shift_rows"
    /\ state' = inv_shift_rows(state)
    /\ pc' = "d_last_inv_sub_bytes"
    /\ trace' = Append(trace, "inv_shift_rows")
    /\ UNCHANGED <<key, input, first, round_keys, i, out1, out2, keys_used,
                   ecb_vars, main_vars, fn_vars, gf_vars>>

InvCipherLastInvSubBytes ==
    /\ pc = "d_last_inv_sub_bytes"
    /\ state' = inv_sub_bytes(state)
    /\ pc' = "d_last_add_round_key"
    /\ trace' = Append(trace, "inv_sub_bytes")
    /\ UNCHANGED <<key, input, first, round_keys, i, out1, out2, keys_used,
                   ecb_vars, main_vars, fn_vars, gf_vars>>

\* state.add_round_key(&round_keys[0]); state.into_array()
InvCipherLastAddRoundKey ==
    /\ pc = "d_last_add_round_key"
    /\ state' = add_round_key(state, Get(round_keys, 0))
    /\ Return(into_array(state'), "cipher")
    /\ trace' = trace \o <<"add_round_key", "into_array">>
    /\ keys_used' = Append(keys_used, 0)
    /\ UNCHANGED <<key, input, first, round_keys, i,
                   ecb_vars, main_vars, fn_vars, gf_vars>>

Next ==
    \/ Expand
    \/ CipherBegin
    \/ CipherSubBytes
    \/ CipherShiftRows
    \/ CipherMixColumns
    \/ CipherAddRoundKey
    \/ CipherLastSubBytes
    \/ CipherLastShiftRows
    \/ CipherLastAddRoundKey
    \/ InvCipherBegin
    \/ InvCipherInvShiftRows
    \/ InvCipherInvSubBytes
    \/ InvCipherAddRoundKey
    \/ InvCipherInvMixColumns
    \/ InvCipherLastInvShiftRows
    \/ InvCipherLastInvSubBytes
    \/ InvCipherLastAddRoundKey

Spec == Init /\ [][Next]_vars

(***************************************************************************)
(* decrypt_ecb as a state machine: a caller decrypts two ciphertexts under *)
(* the same key, one call after the other.  Each pass through the loop of  *)
(* decrypt_ecb is one step.                                                *)
(***************************************************************************)
\* The largest number of 16-byte blocks of a ciphertext, and the number of
\* different blocks the ciphertexts are built from.
MaxBlocks == 2

NumEcbBlocks == 3

EcbKeys == {Key128_from_bytes(YellowSubmarine), Key128_from_bytes(FipsKey)}

\* The blocks the ciphertexts are built from.
EcbBlock(n) == IF n = 0 THEN SuperTopSecretCiphertext ELSE Pattern(7 * n + 1)

\* n blocks in cyclic order from block `start` on.
BlockList(start, n) == [k \in 1..n |-> EcbBlock((start + k - 1) % NumEcbBlocks)]

\* What follows the last whole block of a ciphertext: nothing, one byte, or
\* fifteen bytes.
EcbTails == {<<>>, <<7>>, SubSeq(Pattern(9), 1, 15)}

\* The first n blocks of block_list, one after the other.
RECURSIVE Join(_, _)
Join(block_list, n) ==
    IF n = 0 THEN <<>> ELSE Join(block_list, n - 1) \o block_list[n]

\* The ciphertext pairs of the callers: the second is the first with at most
\* one of its blocks replaced by another block.
InitEcb ==
    /\ CipherIdle
    /\ MainIdle
    /\ FnIdle
    /\ GfIdle
    /\ e_pc = "decrypt_ecb"
    /\ e_key \in EcbKeys
    /\ \E n \in 0..MaxBlocks, start \in 0..NumEcbBlocks - 1, tail \in EcbTails :
         \E replaced \in {BlockList(start, n)}
               \cup {[BlockList(start, n) EXCEPT ![j] = EcbBlock((start + j) % NumEcbBlocks)] :
                        j \in 1..n} :
           e_ciphertext = << Join(BlockList(start, n), n) \o tail,
                             Join(replaced, n) \o tail >>
    /\ e_call = 1
    /\ e_round_keys = <<>>
    /\ e_n = 0
    /\ e_output = <<>>
    /\ e_result = <<NotCalled, NotCalled>>

\* ciphertext.chunks(16) of the running call
EcbChunks == chunks(e_ciphertext[e_call], 16)

\* The running call ends with `outcome`; its locals are dropped and the
\* caller goes on to its second call or is done.
EcbEnd(outcome) ==
    /\ e_result' = [e_result EXCEPT ![e_call] = outcome]
    /\ e_round_keys' = <<>>
    /\ e_n' = 0
    /\ e_output' = <<>>
    /\ IF e_call = 1
       THEN e_call' = 2 /\ e_pc' = "decrypt_ecb"
       ELSE e_call' = e_call /\ e_pc' = "done"

\* let mut output = Vec::with_capacity(ciphertext.len());
\* let round_keys = key.expand();
DecryptEcbBegin ==
    /\ e_pc = "decrypt_ecb"
    /\ e_output' = <<>>
    /\ e_round_keys' = expand(e_key)
    /\ e_n' = 0
    /\ e_pc' = "for_chunk"
    /\ UNCHANGED <<e_key, e_ciphertext, e_call, e_result, cipher_vars, main_vars, fn_vars,
                   gf_vars>>

\* One pass through the loop with a chunk of 16 bytes.
DecryptEcbChunk ==
    /\ e_pc = "for_chunk"
    /\ e_n < Len(EcbChunks)
    /\ Len(Get(EcbChunks, e_n)) = 16
    /\ e_output' = decrypt_chunk(e_output, Get(EcbChunks, e_n), e_round_keys)
    /\ e_n' = e_n + 1
    /\ UNCHANGED <<e_pc, e_key, e_ciphertext, e_call, e_round_keys, e_result,
                   cipher_vars, main_vars, fn_vars, gf_vars>>

\* chunk.try_into().expect(..) on a chunk that is not 16 bytes long.
DecryptEcbPanic ==
    /\ e_pc = "for_chunk"
    /\ e_n < Len(EcbChunks)
    /\ Len(Get(EcbChunks, e_n)) # 16
    /\ EcbEnd(Panicked("input length needs to be a multiple of 16: TryFromSliceError(())"))
    /\ UNCHANGED <<e_key, e_ciphertext, cipher_vars, main_vars, fn_vars, gf_vars>>

\* The loop is over: decrypt_ecb returns output.
DecryptEcbReturn ==
    /\ e_pc = "for_chunk"
    /\ e_n = Len(EcbChunks)
    /\ EcbEnd(Returned(e_output))
    /\ UNCHANGED <<e_key, e_ciphertext, cipher_vars, main_vars, fn_vars, gf_vars>>

NextEcb ==
    \/ DecryptEcbBegin
    \/ DecryptEcbChunk
    \/ DecryptEcbPanic
    \/ DecryptEcbReturn

SpecEcb == InitEcb /\ [][NextEcb]_vars

(***************************************************************************)
(* The aes command (src/src/bin/aes.rs): main with the decrypt             *)
(* subcommand, base64 encoding and ecb mode, which are the only ones.      *)
(* Each statement of main is one step.                                     *)
(***************************************************************************)
\* The largest byte length of a --key argument.
MaxKeyLen == 32

\* A --key argument of n bytes: "YELLOW SUBMARINE" again and again.
KeyArgument(n) == [k \in 1..n |-> Get(YellowSubmarine, (k - 1) % 16)]

\* A block that is not UTF-8 (it starts with the byte 0xFF).
NotUtf8Block == Set(SuperTopSecret, 0, 255)

\* What fs::read_to_string finds at the path: the content of a file as a
\* String, or the io::Error, turned into an Error by error.rs.
Files ==
    { Ok(bytes_to_base64_string(SuperTopSecretCiphertext)),
      Ok(bytes_to_base64_string(SuperTopSecretCiphertext \o SuperTopSecretCiphertext)
             \o <<"\n">>),
      Ok(bytes_to_base64_string(SuperTopSecretCiphertext \o <<1, 2, 3>>)),
      Ok(bytes_to_base64_string(
             cipher(NotUtf8Block, expand(Key128_from_bytes(YellowSubmarine))))),
      Ok(<<>>),
      Ok(<<"\f", "\\u{b}">> \o bytes_to_base64_string(SuperTopSecretCiphertext)
             \o <<"\\u{a0}", "\\u{2003}", "\r", "\n">>),
      Ok(<<"S", "l", "v", "i", "!", "A", "=", "=">>),
      Ok(<<"S", "l", "v", "i", "U">>),
      Err("No such file or directory (os error 2)"),
      Err("stream did not contain valid UTF-8") }

InitMain ==
    /\ CipherIdle
    /\ EcbIdle
    /\ FnIdle
    /\ GfIdle
    /\ m_pc = "read_to_string"
    /\ m_key_arg \in {KeyArgument(n) : n \in 0..MaxKeyLen}
    /\ m_file \in Files
    /\ m_input = <<>>
    /\ m_decoded = <<>>
    /\ m_key = <<>>
    /\ m_decrypted = <<>>
    /\ m_calls = <<>>
    /\ m_stdout = <<>>
    /\ m_exit = "running"
    /\ m_message = ""

\* The `?` operator on an Err and the end of main by `Ok(())`: the process
\* ends and nothing of main runs after it.
MainExit(how, message) ==
    /\ m_pc' = "exited"
    /\ m_exit' = how
    /\ m_message' = message

\* <[u8] as TryInto<[u8; 16]>>::try_into: the array of a slice of 16 bytes.
try_into(slice) ==
    IF Len(slice) = 16 THEN Ok(slice) ELSE Err("could not convert slice to array")

\* The key check taking a short key as the first bytes of a key of 16 bytes,
\* the others zero.
key_try_into_PadsShort(key_bytes) ==
    IF Len(key_bytes) <= 16
    THEN Ok(key_bytes \o SubSeq(Pattern(0), 1, 16 - Len(key_bytes)))
    ELSE Err("invalid key size")

\* The key check taking the first 16 bytes of a longer key.
key_try_into_TakesFirst16(key_bytes) ==
    IF Len(key_bytes) >= 16
    THEN Ok(SubSeq(key_bytes, 1, 16))
    ELSE Err("invalid key size")

\* key.try_into().map_err(|_e| Error("invalid key size".to_owned()))
key_try_into(key_bytes) ==
    IF try_into(key_bytes).ok
    THEN try_into(key_bytes)
    ELSE Err("invalid key size")

\* The calls decrypt_ecb makes on `ciphertext`, in order: expand, and
\* inv_cipher for every chunk of 16 bytes up to the first shorter one.
RECURSIVE decrypt_ecb_calls(_, _)
decrypt_ecb_calls(chunk_list, n) ==
    IF n < Len(chunk_list) /\ Len(Get(chunk_list, n)) = 16
    THEN <<"inv_cipher">> \o decrypt_ecb_calls(chunk_list, n + 1)
    ELSE <<>>

\* let input = fs::read_to_string(decrypt_args.path)?;
MainReadToString ==
    /\ m_pc = "read_to_string"
    /\ m_calls' = Append(m_calls, "read_to_string")
    /\ IF m_file.ok
       THEN /\ m_input' = m_file.value
            /\ m_pc' = "decode_str"
            /\ UNCHANGED <<m_exit, m_message>>
       ELSE /\ MainExit("error", m_file.message)
            /\ UNCHANGED m_input
    /\ UNCHANGED <<m_key_arg, m_file, m_decoded, m_key, m_decrypted, m_stdout,
                   cipher_vars, ecb_vars, fn_vars, gf_vars>>

\* let decoded = base64::decode_str(&input)?;
MainDecodeStr ==
    /\ m_pc = "decode_str"
    /\ m_calls' = Append(m_calls, "decode_str")
    /\ IF decode_str(m_input).ok
       THEN /\ m_decoded' = decode_str(m_input).value
            /\ m_pc' = "try_into"
            /\ UNCHANGED <<m_exit, m_message>>
       ELSE /\ MainExit("error", decode_str(m_input).message)
            /\ UNCHANGED m_decoded
    /\ UNCHANGED <<m_key_arg, m_file, m_input, m_key, m_decrypted, m_stdout,
                   cipher_vars, ecb_vars, fn_vars, gf_vars>>

\* let key = decrypt_args.key.as_bytes();
\* let key: [u8; 16] = key.try_into().map_err(..)?;
\* let key = aes::Key128::from_bytes(key);
MainKey ==
    /\ m_pc = "try_into"
    /\ IF key_try_into(m_key_arg).ok
       THEN /\ m_key' = Key128_from_bytes(key_try_into(m_key_arg).value)
            /\ m_calls' = m_calls \o <<"try_into", "Key128::from_bytes">>
            /\ m_pc' = "decrypt_ecb"
            /\ UNCHANGED <<m_exit, m_message>>
       ELSE /\ MainExit("error", key_try_into(m_key_arg).message)
            /\ m_calls' = Append(m_calls, "try_into")
            /\ UNCHANGED m_key
    /\ UNCHANGED <<m_key_arg, m_file, m_input, m_decoded, m_decrypted, m_stdout,
                   cipher_vars, ecb_vars, fn_vars, gf_vars>>

\* let decrypted = aes::decrypt_ecb(&decoded, key);
\* A panic of decrypt_ecb ends the process.
MainDecryptEcb ==
    /\ m_pc = "decrypt_ecb"
    /\ m_calls' = m_calls \o <<"decrypt_ecb", "expand">>
                          \o decrypt_ecb_calls(chunks(m_decoded, 16), 0)
    /\ IF decrypt_ecb(m_decoded, m_key).tag = "returned"
       THEN /\ m_decrypted' = decrypt_ecb(m_decoded, m_key).value
            /\ m_pc' = "println"
            /\ UNCHANGED <<m_exit, m_message>>
       ELSE /\ MainExit("panic", decrypt_ecb(m_decoded, m_key).message)
            /\ UNCHANGED m_decrypted
    /\ UNCHANGED <<m_key_arg, m_file, m_input, m_decoded, m_key, m_stdout,
                   cipher_vars, ecb_vars, fn_vars, gf_vars>>

\* println!("{}", String::from_utf8(decrypted).expect(..));
\* The line written is the string and a line feed; on the Err, expect
\* panics with its message, ": " and the Debug of the FromUtf8Error.
MainPrintln ==
    /\ m_pc = "println"
    /\ IF from_utf8(m_decrypted).ok
       THEN /\ m_stdout' = m_stdout \o m_decrypted \o <<10>>
            /\ m_calls' = m_calls \o <<"from_utf8", "println">>
            /\ m_pc' = "return"
            /\ UNCHANGED <<m_exit, m_message>>
       ELSE /\ MainExit("panic", "decryption produced invalid utf-8" \o ": "
                                   \o Debug_FromUtf8Error(from_utf8(m_decrypted).error))
            /\ m_calls' = Append(m_calls, "from_utf8")
            /\ UNCHANGED m_stdout
    /\ UNCHANGED <<m_key_arg, m_file, m_input, m_decoded, m_key, m_decrypted,
                   cipher_vars, ecb_vars, fn_vars, gf_vars>>

\* Ok(())
MainReturn ==
    /\ m_pc = "return"
    /\ MainExit("ok", "")
    /\ UNCHANGED <<m_key_arg, m_file, m_input, m_decoded, m_key, m_decrypted,
                   m_calls, m_stdout, cipher_vars, ecb_vars, fn_vars, gf_vars>>

NextMain ==
    \/ MainReadToString
    \/ MainDecodeStr
    \/ MainKey
    \/ MainDecryptEcb
    \/ MainPrintln
    \/ MainReturn

SpecMain == InitMain /\ [][NextMain]_vars

(***************************************************************************)
(* Calls of the functions of the cipher: a caller calls the functions of   *)
(* f_calls one after the other, the first on f_arg and every other one on  *)
(* the value the call before it returned.  Each call is one step.          *)
(***************************************************************************)
\* The argument of the next call.
FnInput == IF f_out = <<>> THEN f_arg ELSE f_out[Len(f_out)]

\* The next call is a call of `name`.
FnNext(name) == Len(f_out) < Len(f_calls) /\ f_calls[Len(f_out) + 1] = name

\* The call returns `result`.
FnReturn(result) ==
    /\ f_out' = Append(f_out, result)
    /\ UNCHANGED <<f_calls, f_arg, f_key, f_index, f_column, cipher_vars, ecb_vars, main_vars,
                   gf_vars>>

(***************************************************************************)
(* The substitution tables: a byte is looked up in one table and the value *)
(* found in the other, as apply_sbox and sub_word look bytes up.           *)
(***************************************************************************)
InitSbox ==
    /\ CipherIdle
    /\ EcbIdle
    /\ MainIdle
    /\ GfIdle
    /\ f_calls \in {<<"SBOX_ENCRYPT", "SBOX_DECRYPT">>, <<"SBOX_DECRYPT", "SBOX_ENCRYPT">>}
    /\ f_arg \in Byte
    /\ f_key = <<>>
    /\ f_index = 0
    /\ f_column = <<>>
    /\ f_out = <<>>

\* SBOX_ENCRYPT[x as usize]
SboxEncryptLookup ==
    /\ FnNext("SBOX_ENCRYPT")
    /\ FnReturn(Get(SBOX_ENCRYPT, FnInput))

\* SBOX_DECRYPT[x as usize]
SboxDecryptLookup ==
    /\ FnNext("SBOX_DECRYPT")
    /\ FnReturn(Get(SBOX_DECRYPT, FnInput))

NextSbox ==
    \/ SboxEncryptLookup
    \/ SboxDecryptLookup

SpecSbox == InitSbox /\ [][NextSbox]_vars

(***************************************************************************)
(* The methods of Column and State: a caller calls a method and then the   *)
(* method that undoes it, in one order or the other.                       *)
(***************************************************************************)
\* The numbers of pattern columns, pattern States and round keys the callers
\* draw their arguments from.
NumColumnPatterns == 48

NumStatePatterns == 24

NumRoundKeyPatterns == 4

\* The columns test_mix_column mixes.
test_mix_column_before ==
    { <<219, 19, 83, 69>>, <<242, 10, 34, 92>>, <<1, 1, 1, 1>>,
      <<198, 198, 198, 198>>, <<212, 212, 212, 213>>, <<45, 38, 49, 76>> }

\* The States of test_sub_bytes_encrypt, test_shift_rows (and
\* test_inv_shift_rows) and text_mix_columns.
test_sub_bytes_encrypt_state ==
    from_rows(<< <<25, 160, 154, 233>>, <<61, 244, 198, 248>>,
                 <<227, 226, 141, 72>>, <<190, 43, 42, 8>> >>)

test_shift_rows_state ==
    from_rows(<< <<116, 197, 223, 60>>, <<108, 30, 147, 98>>,
                 <<225, 221, 121, 176>>, <<9, 59, 199, 231>> >>)

text_mix_columns_state ==
    from_rows(<< <<212, 224, 184, 30>>, <<191, 180, 65, 39>>,
                 <<93, 82, 17, 152>>, <<48, 174, 241, 229>> >>)

\* Column([u8; 4]): every column with one byte that is not zero, the
\* columns of the tests and the pattern columns.
Columns ==
    {Set(<<0, 0, 0, 0>>, k, x) : k \in 0..3, x \in Byte}
    \cup test_mix_column_before
    \cup {<<PatternByte(n, 0), PatternByte(n, 1), PatternByte(n, 2), PatternByte(n, 3)>> :
             n \in 0..NumColumnPatterns - 1}

\* State::from_bytes of the blocks of the cipher and of the pattern arrays,
\* and the States of the tests.
States ==
    {from_bytes(b) : b \in Blocks \cup {Pattern(n) : n \in 0..NumStatePatterns - 1}}
    \cup {test_sub_bytes_encrypt_state, test_shift_rows_state, text_mix_columns_state}

\* RoundKey([u8; 16])
RoundKeyArguments == {Pattern(3 * n + 1) : n \in 0..NumRoundKeyPatterns - 1}

InitState ==
    /\ CipherIdle
    /\ EcbIdle
    /\ MainIdle
    /\ GfIdle
    /\ f_out = <<>>
    /\ f_index = 0
    /\ f_column = <<>>
    /\ \/ /\ f_calls = <<"mix", "inv_mix">>
          /\ f_arg \in Columns
          /\ f_key = <<>>
       \/ /\ f_calls \in {<<"mix_columns", "inv_mix_columns">>,
                           <<"shift_rows", "inv_shift_rows">>,
                           <<"inv_shift_rows", "shift_rows">>,
                           <<"sub_bytes", "inv_sub_bytes">>,
                           <<"inv_sub_bytes", "sub_bytes">>}
          /\ f_arg \in States
          /\ f_key = <<>>
       \/ /\ f_calls = <<"add_round_key", "add_round_key">>
          /\ f_arg \in States
          /\ f_key \in RoundKeyArguments

\* column.mix()
CallMix ==
    /\ FnNext("mix")
    /\ FnReturn(mix(FnInput))

\* column.inv_mix()
CallInvMix ==
    /\ FnNext("inv_mix")
    /\ FnReturn(inv_mix(FnInput))

\* state.mix_columns()
CallMixColumns ==
    /\ FnNext("mix_columns")
    /\ FnReturn(mix_columns(FnInput))

\* state.inv_mix_columns()
CallInvMixColumns ==
    /\ FnNext("inv_mix_columns")
    /\ FnReturn(inv_mix_columns(FnInput))

\* state.shift_rows()
CallShiftRows ==
    /\ FnNext("shift_rows")
    /\ FnReturn(shift_rows(FnInput))

\* state.inv_shift_rows()
CallInvShiftRows ==
    /\ FnNext("inv_shift_rows")
    /\ FnReturn(inv_shift_rows(FnInput))

\* state.sub_bytes()
CallSubBytes ==
    /\ FnNext("sub_bytes")
    /\ FnReturn(sub_bytes(FnInput))

\* state.inv_sub_bytes()
CallInvSubBytes ==
    /\ FnNext("inv_sub_bytes")
    /\ FnReturn(inv_sub_bytes(FnInput))

\* state.add_round_key(&round_key)
CallAddRoundKey ==
    /\ FnNext("add_round_key")
    /\ FnReturn(add_round_key(FnInput, f_key))

NextState ==
    \/ CallMix
    \/ CallInvMix
    \/ CallMixColumns
    \/ CallInvMixColumns
    \/ CallShiftRows
    \/ CallInvShiftRows
    \/ CallSubBytes
    \/ CallInvSubBytes
    \/ CallAddRoundKey

SpecState == InitState /\ [][NextState]_vars

(***************************************************************************)
(* gf::mult: a caller multiplies two bytes.                                *)
(***************************************************************************)
InitMult ==
    /\ CipherIdle
    /\ EcbIdle
    /\ MainIdle
    /\ GfIdle
    /\ f_calls = <<"mult">>
    /\ f_arg \in Byte \X Byte
    /\ f_key = <<>>
    /\ f_index = 0
    /\ f_column = <<>>
    /\ f_out = <<>>

\* gf::mult(a, b)
CallMult ==
    /\ FnNext("mult")
    /\ FnReturn(mult(f_arg[1], f_arg[2]))

NextMult ==
    \/ CallMult

SpecMult == InitMult /\ [][NextMult]_vars

(***************************************************************************)
(* The loop of gf::mult: a caller multiplies two bytes; the entry into the *)
(* function, each pass through the body of the while loop and the return   *)
(* are one step each.                                                      *)
(***************************************************************************)
InitMultLoop ==
    /\ CipherIdle
    /\ EcbIdle
    /\ MainIdle
    /\ FnIdle
    /\ g_pc = "call"
    /\ g_arg \in Byte \X Byte
    /\ g_a = 0
    /\ g_b = 0
    /\ g_result = 0
    /\ g_passes = 0

\* let (mut a, mut b) = (a, b); let mut result: u8 = 0;
MultEnter ==
    /\ g_pc = "call"
    /\ g_pc' = "loop"
    /\ g_a' = g_arg[1]
    /\ g_b' = g_arg[2]
    /\ g_result' = 0
    /\ UNCHANGED <<g_arg, g_passes, cipher_vars, ecb_vars, main_vars, fn_vars>>

\* The loop condition holds: one pass through the body.
MultLoopPass ==
    /\ g_pc = "loop"
    /\ mult_condition(g_a, g_b)
    /\ g_a' = mult_pass(g_a, g_b, g_result).a
    /\ g_b' = mult_pass(g_a, g_b, g_result).b
    /\ g_result' = mult_pass(g_a, g_b, g_result).result
    /\ g_passes' = g_passes + 1
    /\ UNCHANGED <<g_pc, g_arg, cipher_vars, ecb_vars, main_vars, fn_vars>>

\* The loop condition fails: mult returns result.
MultReturn ==
    /\ g_pc = "loop"
    /\ ~mult_condition(g_a, g_b)
    /\ g_pc' = "returned"
    /\ UNCHANGED <<g_arg, g_a, g_b, g_result, g_passes, cipher_vars, ecb_vars, main_vars,
                   fn_vars>>

NextMultLoop ==
    \/ MultEnter
    \/ MultLoopPass
    \/ MultReturn

\* The caller runs on: a step that can be taken is taken.
SpecMultLoop == InitMultLoop /\ [][NextMultLoop]_vars /\ WF_vars(NextMultLoop)

(***************************************************************************)
(* The key schedule: a caller builds a Key128 from 16 bytes and expands    *)
(* it.                                                                     *)
(***************************************************************************)
\* The number of pattern keys the callers of expand draw their keys from.
NumExpandKeys == 48

\* The keys of the cipher, the key of 16 zero bytes and the pattern keys.
ExpandKeys == Keys \cup {ZeroRoundKey} \cup {Pattern(n) : n \in 0..NumExpandKeys - 1}

InitExpand ==
    /\ CipherIdle
    /\ EcbIdle
    /\ MainIdle
    /\ GfIdle
    /\ f_calls = <<"Key128::from_bytes", "expand">>
    /\ f_arg \in ExpandKeys
    /\ f_key = <<>>
    /\ f_index = 0
    /\ f_column = <<>>
    /\ f_out = <<>>

\* Key128::from_bytes(key)
CallKeyFromBytes ==
    /\ FnNext("Key128::from_bytes")
    /\ FnReturn(Key128_from_bytes(FnInput))

\* key.expand()
CallExpand ==
    /\ FnNext("expand")
    /\ FnReturn(expand(FnInput))

NextExpand ==
    \/ CallKeyFromBytes
    \/ CallExpand

SpecExpand == InitExpand /\ [][NextExpand]_vars

(***************************************************************************)
(* Key128::column: a caller builds a Key128 from 16 bytes and asks for one *)
(* of its columns.                                                         *)
(***************************************************************************)
\* The largest index the callers of Key128::column give.
MaxColumnIndex == 6

\* Key128::column: the assertion on the index, then
\* self.0.get((index * 4)..(index * 4 + 4)).unwrap().try_into().unwrap();
\* get gives None when the range ends after the last byte of the key, and
\* unwrap panics on None (the message is written without its backquotes).
Key128_column(key128, index) ==
    LET count == 4
    IN  IF ~(index <= count)
        THEN Panicked("index out of range")
        ELSE IF index * 4 + 4 > Len(key128)
             THEN Panicked("called Option::unwrap() on a None value")
             ELSE Returned(SubSeq(key128, index * 4 + 1, index * 4 + 4))

InitKeyColumn ==
    /\ CipherIdle
    /\ EcbIdle
    /\ MainIdle
    /\ GfIdle
    /\ f_calls = <<"Key128::from_bytes", "Key128::column">>
    /\ f_arg \in ExpandKeys
    /\ f_key = <<>>
    /\ f_index \in 0..MaxColumnIndex
    /\ f_column = <<>>
    /\ f_out = <<>>

\* Key128::from_bytes(key), before key.column(index)
CallKey128FromBytes ==
    /\ FnNext("Key128::from_bytes")
    /\ FnReturn(Key128_from_bytes(FnInput))

\* key.column(index)
CallKey128Column ==
    /\ FnNext("Key128::column")
    /\ FnReturn(Key128_column(FnInput, f_index))

NextKeyColumn ==
    \/ CallKey128FromBytes
    \/ CallKey128Column

SpecKeyColumn == InitKeyColumn /\ [][NextKeyColumn]_vars

(***************************************************************************)
(* The layout of State: a caller builds a State from 16 bytes and reads it *)
(* back as an array, by (row, column), or by column, or writes a column.   *)
(***************************************************************************)
\* The input of state_indexed of the tests: the bytes 0..15.
state_indexed_input == [k \in 1..16 |-> k - 1]

\* The arrays the callers build a State from.
LayoutInputs ==
    Blocks \cup {Pattern(n) : n \in 0..NumStatePatterns - 1} \cup {state_indexed_input}

InitLayout ==
    /\ CipherIdle
    /\ EcbIdle
    /\ MainIdle
    /\ GfIdle
    /\ f_arg \in LayoutInputs
    /\ f_key = <<>>
    /\ f_out = <<>>
    /\ \/ /\ f_calls = <<"State::from_bytes", "into_array">>
          /\ f_index = 0
          /\ f_column = <<>>
       \/ /\ f_calls = <<"State::from_bytes", "index">>
          /\ f_index \in (0..3) \X (0..3)
          /\ f_column = <<>>
       \/ /\ f_calls = <<"State::from_bytes", "column">>
          /\ f_index \in 0..MaxColumnIndex
          /\ f_column = <<>>
       \/ /\ f_calls = <<"State::from_bytes", "set_column">>
          /\ f_index \in 0..MaxColumnIndex
          /\ f_column \in test_mix_column_before

\* State::from_bytes(input)
CallStateFromBytes ==
    /\ FnNext("State::from_bytes")
    /\ FnReturn(from_bytes(FnInput))

\* state.into_array()
CallIntoArray ==
    /\ FnNext("into_array")
    /\ FnReturn(into_array(FnInput))

\* state[(row, col)]
CallIndex ==
    /\ FnNext("index")
    /\ FnReturn(State_index(FnInput, f_index[1], f_index[2]))

\* state.column(index)
CallColumn ==
    /\ FnNext("column")
    /\ FnReturn(column(FnInput, f_index))

\* state.set_column(index, column)
CallSetColumn ==
    /\ FnNext("set_column")
    /\ FnReturn(set_column(FnInput, f_index, f_column))

NextLayout ==
    \/ CallStateFromBytes
    \/ CallIntoArray
    \/ CallIndex
    \/ CallColumn
    \/ CallSetColumn

SpecLayout == InitLayout /\ [][NextLayout]_vars

(***************************************************************************)
(* rcon: a caller adds one of the round constants to a word, as expand     *)
(* does with ROUND_CONSTANTS[i - 1].                                       *)
(***************************************************************************)
InitRcon ==
    /\ CipherIdle
    /\ EcbIdle
    /\ MainIdle
    /\ GfIdle
    /\ f_calls = <<"rcon">>
    /\ f_arg \in Columns
    /\ f_key = <<>>
    /\ f_index \in 0..Len(ROUND_CONSTANTS) - 1
    /\ f_column = <<>>
    /\ f_out = <<>>

\* rcon(&mut word, ROUND_CONSTANTS[index])
CallRcon ==
    /\ FnNext("rcon")
    /\ FnReturn(rcon(FnInput, Get(ROUND_CONSTANTS, f_index)))

NextRcon ==
    \/ CallRcon

SpecRcon == InitRcon /\ [][NextRcon]_vars

(***************************************************************************)
(* Properties of the block cipher, checked under Spec.                     *)
(***************************************************************************)
\* The array the first call returned, when the first call was cipher.
Encrypted == IF first = "cipher" THEN out1 ELSE <<>>

\* C1: for every block b and key k of the model,
\* inv_cipher(cipher(b, expand(k)), expand(k)) = b: when cipher was called
\* on the input and inv_cipher on its result, inv_cipher returns the input.
C1_RoundTrip ==
    (first = "cipher" /\ pc = "done") => out2 = input

\* A run in which cipher changed the block and inv_cipher has returned.
C1_Witness ==
    /\ first = "cipher"
    /\ pc = "done"
    /\ out1 # input
    /\ out2 = input

\* The ciphertext the known-answer test of the specification states.
SpecKnownAnswer == <<57, 37, 133, 29, 2, 220, 9, 251, 220, 17, 133, 151, 25, 106, 11, 50>>

\* cipher has returned for the plaintext and key of FIPS-197 Appendix B.
FipsEncrypted ==
    /\ key = FipsKey
    /\ input = FipsPlaintext
    /\ Encrypted # <<>>

\* C2 as stated: the plaintext 3243f6a8885a308d313198a2e0370734 under the
\* key 2b7e151628aed2a6abf7158809cf4f3c encrypts to
\* 39 25 85 1d 02 dc 09 fb dc 11 85 97 19 6a 0b 32.
C2_AsStated ==
    FipsEncrypted => Encrypted = SpecKnownAnswer

\* C2 amended: the result is the stated array with third byte 0x84:
\* 39 25 84 1d 02 dc 09 fb dc 11 85 97 19 6a 0b 32.
C2_KnownAnswer ==
    FipsEncrypted => Encrypted = Set(SpecKnownAnswer, 2, 132)

C2_Witness ==
    /\ FipsEncrypted
    /\ Get(Encrypted, 2) = 132

\* expected_ciphertext of test_encrypt_block_from_spec.
test_encrypt_block_from_spec_expected ==
    <<57, 37, 132, 29, 2, 220, 9, 251, 220, 17, 133, 151, 25, 106, 11, 50>>

\* C3: cipher returns the array test_encrypt_block_from_spec asserts for the
\* plaintext and key of FIPS-197 Appendix B.
C3_TestKnownAnswer ==
    (key = FipsKey /\ input = FipsPlaintext /\ first = "cipher" /\ out1 # <<>>)
        => out1 = test_encrypt_block_from_spec_expected

C3_Witness ==
    /\ key = FipsKey
    /\ input = FipsPlaintext
    /\ first = "cipher"
    /\ out1 = test_encrypt_block_from_spec_expected

\* The round keys test_expand_128 asserts.
test_expand_128_expected ==
    << <<43, 126, 21, 22, 40, 174, 210, 166, 171, 247, 21, 136, 9, 207, 79, 60>>,
       <<160, 250, 254, 23, 136, 84, 44, 177, 35, 163, 57, 57, 42, 108, 118, 5>>,
       <<242, 194, 149, 242, 122, 150, 185, 67, 89, 53, 128, 122, 115, 89, 246, 127>>,
       <<61, 128, 71, 125, 71, 22, 254, 62, 30, 35, 126, 68, 109, 122, 136, 59>>,
       <<239, 68, 165, 65, 168, 82, 91, 127, 182, 113, 37, 59, 219, 11, 173, 0>>,
       <<212, 209, 198, 248, 124, 131, 157, 135, 202, 242, 184, 188, 17, 249, 21, 188>>,
       <<109, 136, 163, 122, 17, 11, 62, 253, 219, 249, 134, 65, 202, 0, 147, 253>>,
       <<78, 84, 247, 14, 95, 95, 201, 243, 132, 166, 79, 178, 78, 166, 220, 79>>,
       <<234, 210, 115, 33, 181, 141, 186, 210, 49, 43, 245, 96, 127, 141, 41, 47>>,
       <<172, 119, 102, 243, 25, 250, 220, 33, 40, 209, 41, 65, 87, 92, 0, 110>>,
       <<208, 20, 249, 168, 201, 238, 37, 137, 225, 63, 12, 200, 182, 99, 12, 166>> >>

\* C4: expand on the key 2b7e151628aed2a6abf7158809cf4f3c returns the eleven
\* round keys listed in test_expand_128, in order; round key 1 is
\* a0fafe17 88542cb1 23a33939 2a6c7605 and round key 10 is
\* d014f9a8 c9ee2589 e13f0cc8 b6630ca6.
C4_ExpandKnownAnswer ==
    (key = FipsKey /\ pc # "expand") =>
        /\ round_keys = test_expand_128_expected
        /\ Get(round_keys, 1) =
               <<160, 250, 254, 23, 136, 84, 44, 177, 35, 163, 57, 57, 42, 108, 118, 5>>
        /\ Get(round_keys, 10) =
               <<208, 20, 249, 168, 201, 238, 37, 137, 225, 63, 12, 200, 182, 99, 12, 166>>

C4_Witness ==
    /\ key = FipsKey
    /\ pc # "expand"
    /\ Len(round_keys) = 11

\* C5: with the key "YELLOW SUBMARINE", cipher of "SUPER TOP SECRET"
\* returns 4a5be2518e40a37bdb4eb52e83c14805 and inv_cipher of
\* 4a5be2518e40a37bdb4eb52e83c14805 returns "SUPER TOP SECRET".
C5_AsciiExample ==
    /\ (key = YellowSubmarine /\ input = SuperTopSecret
            /\ first = "cipher" /\ out1 # <<>>)
           => out1 = SuperTopSecretCiphertext
    /\ (key = YellowSubmarine /\ input = SuperTopSecretCiphertext
            /\ first = "inv_cipher" /\ out1 # <<>>)
           => out1 = SuperTopSecret

\* Both calls of C5 have returned: the run that encrypts "SUPER TOP SECRET"
\* has decrypted its result as its second call.
C5_Witness ==
    /\ key = YellowSubmarine
    /\ input = SuperTopSecret
    /\ first = "cipher"
    /\ out1 = SuperTopSecretCiphertext
    /\ out2 = SuperTopSecret

(***************************************************************************)
(* Properties of decrypt_ecb, checked under SpecEcb.                       *)
(***************************************************************************)
\* Bytes [16 * k, 16 * k + 16) of a byte sequence.
Block16(bytes, k) == SubSeq(bytes, 16 * k + 1, 16 * k + 16)

\* Call c of decrypt_ecb has ended.
EcbEnded(c) == c \in DOMAIN e_result /\ e_result[c].tag # "none"

\* C6: for every key and every ciphertext of n * 16 bytes (n >= 0),
\* decrypt_ecb returns exactly n * 16 bytes, and bytes [16 * k, 16 * k + 16)
\* of them are inv_cipher of bytes [16 * k, 16 * k + 16) of the ciphertext
\* under key.expand(), for every k in 0..n-1: nothing is added, dropped or
\* reordered.
C6_EcbConcatenation ==
    \A c \in 1..2 :
        (EcbEnded(c) /\ Len(e_ciphertext[c]) % 16 = 0) =>
            LET n == Len(e_ciphertext[c]) \div 16
            IN  /\ e_result[c].tag = "returned"
                /\ Len(e_result[c].value) = n * 16
                /\ \A k \in 0..n - 1 :
                       Block16(e_result[c].value, k)
                           = inv_cipher(Block16(e_ciphertext[c], k), expand(e_key))

\* decrypt_ecb has returned the plaintext of a ciphertext of two different
\* blocks.
C6_Witness ==
    /\ EcbEnded(1)
    /\ e_result[1].tag = "returned"
    /\ Len(e_ciphertext[1]) = 32
    /\ Block16(e_ciphertext[1], 0) # Block16(e_ciphertext[1], 1)
    /\ Len(e_result[1].value) = 32

\* The blocks in which the two ciphertexts differ.
DifferingBlocks ==
    {k \in 0..(Len(e_ciphertext[1]) \div 16) - 1 :
        Block16(e_ciphertext[1], k) # Block16(e_ciphertext[2], k)}

\* Both calls were given n * 16 bytes and have returned.
BothReturned ==
    /\ EcbEnded(1)
    /\ EcbEnded(2)
    /\ Len(e_ciphertext[1]) % 16 = 0
    /\ Len(e_ciphertext[2]) = Len(e_ciphertext[1])
    /\ e_result[1].tag = "returned"
    /\ e_result[2].tag = "returned"

\* C7: for two ciphertexts of the same length n * 16 that differ only inside
\* block j, decrypted under the same key, the outputs of decrypt_ecb are
\* equal in every block other than j and differ in block j.
C7_BlockIndependence ==
    (BothReturned /\ Cardinality(DifferingBlocks) = 1) =>
        \A k \in 0..(Len(e_ciphertext[1]) \div 16) - 1 :
            (Block16(e_result[1].value, k) = Block16(e_result[2].value, k))
                <=> k \notin DifferingBlocks

\* Both calls have returned for two-block ciphertexts that differ in the
\* first block only, so that a block follows the changed one.
C7_Witness ==
    /\ BothReturned
    /\ Len(e_ciphertext[1]) = 32
    /\ DifferingBlocks = {0}
    /\ Block16(e_result[1].value, 0) # Block16(e_result[2].value, 0)

\* C8: when the length of the ciphertext is not a multiple of 16, the call
\* of decrypt_ecb ends in a panic that reaches the caller: it returns no
\* output, neither the plaintext of the whole leading blocks nor that of a
\* padded last block.
C8_PartialChunkPanics ==
    \A c \in 1..2 :
        (EcbEnded(c) /\ Len(e_ciphertext[c]) % 16 # 0) =>
            /\ e_result[c].tag = "panicked"
            /\ e_result[c].message = "input length needs to be a multiple of 16: TryFromSliceError(())"
            /\ e_result[c].value = <<>>

\* decrypt_ecb has panicked on a ciphertext of one whole block and one more
\* byte, after the whole block was decrypted.
C8_Witness ==
    /\ EcbEnded(1)
    /\ Len(e_ciphertext[1]) = 17
    /\ e_result[1].tag = "panicked"

(***************************************************************************)
(* Properties of the aes command, checked under SpecMain.                  *)
(***************************************************************************)
\* main has called the function f.
Called(f) == \E k \in 1..Len(m_calls) : m_calls[k] = f

\* The cipher operations of a decryption.
CipherOperations == {"Key128::from_bytes", "decrypt_ecb", "expand", "inv_cipher"}

\* The file of the run was read and decoded, which main does before it
\* looks at the key.
InputDecoded == m_file.ok /\ decode_str(m_file.value).ok

\* C9 as stated: in the aes decrypt command a --key argument whose byte
\* length is not 16 is rejected with the error "invalid key size": every run
\* with such a key ends with that error.
C9_AsStated ==
    (Len(m_key_arg) # 16 /\ m_pc = "exited") =>
        (m_exit = "error" /\ m_message = "invalid key size")

\* C9, amended: in the aes decrypt command a --key argument whose byte
\* length is not 16 is rejected before any cipher operation begins: in no
\* state of such a run has Key128::expand, inv_cipher or decrypt_ecb been
\* called or anything been printed, and the run ends with an error.  The
\* error is "invalid key size", of the check of the key, exactly when the
\* input file was read and decoded; otherwise the run has ended before the
\* key was looked at, with the error of reading the file or else of decoding
\* it.
C9_InvalidKeySize ==
    Len(m_key_arg) # 16 =>
        /\ \A f \in CipherOperations : ~Called(f)
        /\ m_key = <<>>
        /\ m_decrypted = <<>>
        /\ m_stdout = <<>>
        /\ m_exit \in {"running", "error"}
        /\ Called("try_into") => InputDecoded
        /\ m_pc = "exited" =>
               /\ m_exit = "error"
               /\ Called("try_into") <=> InputDecoded
               /\ m_message = IF ~m_file.ok THEN m_file.message
                              ELSE IF ~decode_str(m_file.value).ok
                                   THEN decode_str(m_file.value).message
                                   ELSE "invalid key size"

\* A key of 15 bytes was rejected with "invalid key size" in a run whose
\* input file held a ciphertext to decrypt.
C9_Witness ==
    /\ Len(m_key_arg) = 15
    /\ m_decoded = SuperTopSecretCiphertext
    /\ Called("try_into")
    /\ m_pc = "exited"
    /\ m_exit = "error"
    /\ m_message = "invalid key size"

\* C10 as stated: the run of the aes decrypt command in which the key check
\* meets a key of 24 or 32 bytes ends with an explicit "not supported" error.
C10_AsStated ==
    (Len(m_key_arg) \in {24, 32} /\ Called("try_into")) =>
        (m_exit = "error" /\ m_message = "not supported")

\* C10, what main does: a key of 24 or 32 bytes is never used with AES-128
\* semantics (no Key128 is built from it or from its first 16 bytes and no
\* cipher operation runs) and no decryption output is produced for it; the
\* key check, which the run reaches exactly when the input file was read and
\* decoded, rejects it with the error of every other key that is not 16
\* bytes long, "invalid key size".
C10_UnsupportedKeySize ==
    Len(m_key_arg) \in {24, 32} =>
        /\ m_key # Key128_from_bytes(SubSeq(m_key_arg, 1, 16))
        /\ m_key = <<>>
        /\ \A f \in CipherOperations : ~Called(f)
        /\ m_decrypted = <<>>
        /\ m_stdout = <<>>
        /\ m_exit \in {"running", "error"}
        /\ Called("try_into") => (m_exit = "error" /\ m_message = "invalid key size")
        /\ m_pc = "exited" => (Called("try_into") <=> InputDecoded)

\* A key of 32 bytes whose first 16 bytes are the key of the ciphertext in
\* the input file was rejected with "invalid key size".
C10_Witness ==
    /\ Len(m_key_arg) = 32
    /\ SubSeq(m_key_arg, 1, 16) = YellowSubmarine
    /\ m_decoded = SuperTopSecretCiphertext
    /\ Called("try_into")
    /\ m_pc = "exited"
    /\ m_exit = "error"
    /\ m_message = "invalid key size"

(***************************************************************************)
(* Properties of the substitution tables, checked under SpecSbox.          *)
(***************************************************************************)
\* The caller has made all its calls.
FnDone == f_calls # <<>> /\ Len(f_out) = Len(f_calls)

\* C11: SBOX_ENCRYPT and SBOX_DECRYPT are mutually inverse permutations of
\* the byte values: for every x in 0..255, SBOX_ENCRYPT[SBOX_DECRYPT[x]] = x
\* and SBOX_DECRYPT[SBOX_ENCRYPT[x]] = x.  A byte looked up in one table and
\* then in the other, in either order, is the byte again.
C11_SboxInverse ==
    (FnDone /\ Len(f_out) = 2) =>
        /\ f_out[1] \in Byte
        /\ f_out[2] = f_arg

\* 0x00 was looked up in SBOX_DECRYPT, which gave 0x52, and 0x52 in
\* SBOX_ENCRYPT.
C11_Witness ==
    /\ FnDone
    /\ f_arg = 0
    /\ f_out[1] = 82
    /\ Len(f_out) = 2

(***************************************************************************)
(* Properties of the methods of Column and State, checked under SpecState. *)
(***************************************************************************)
\* C12: for every 4-byte column c, Column::mix and then Column::inv_mix
\* returns c; and for every State s, mix_columns and then inv_mix_columns
\* returns s.
C12_MixInverse ==
    (FnDone /\ f_calls \in {<<"mix", "inv_mix">>, <<"mix_columns", "inv_mix_columns">>}) =>
        f_out[2] = f_arg

\* inv_mix_columns has returned the State that mix_columns was called on
\* and changed.
C12_Witness ==
    /\ FnDone
    /\ f_calls = <<"mix_columns", "inv_mix_columns">>
    /\ f_arg = from_bytes(FipsPlaintext)
    /\ f_out[1] # f_arg
    /\ f_out[2] = f_arg

\* C13: for every State s, shift_rows and then inv_shift_rows returns s.
C13_ShiftInverse ==
    (FnDone /\ f_calls = <<"shift_rows", "inv_shift_rows">>) => f_out[2] = f_arg

\* inv_shift_rows has returned the State of 16 different bytes that
\* shift_rows was called on and changed.
C13_Witness ==
    /\ FnDone
    /\ f_calls = <<"shift_rows", "inv_shift_rows">>
    /\ f_arg = from_bytes(Pattern(0))
    /\ f_out[1] # f_arg
    /\ f_out[2] = f_arg

\* a ^ b on u8, from the bits of a and b: the bits set in a or b that are
\* not set in both.
BitXor(a, b) == BitOr(a, b) - BitAnd(a, b)

\* C15: add_round_key(rk) replaces the state byte at every linear index k
\* in 0..15 by state[k] XOR rk[k] (column i of the round key is XORed into
\* column i of the State), so that add_round_key twice with the same round
\* key returns the State it started from.
C15_AddRoundKey ==
    (f_calls = <<"add_round_key", "add_round_key">> /\ Len(f_out) >= 1) =>
        /\ \A k \in 0..15 : Get(f_out[1], k) = BitXor(Get(f_arg, k), Get(f_key, k))
        /\ Len(f_out) = 2 => f_out[2] = f_arg

\* add_round_key was called twice with a round key whose columns differ
\* from its rows, and the first call changed the State.
C15_Witness ==
    /\ FnDone
    /\ f_calls = <<"add_round_key", "add_round_key">>
    /\ f_key = Pattern(1)
    /\ f_arg = from_bytes(SuperTopSecret)
    /\ f_out[1] # f_arg

(***************************************************************************)
(* Properties of gf::mult, checked under SpecMult.                         *)
(***************************************************************************)
\* The product of the polynomials a and b over GF(2), without reduction:
\* the XOR of a * x^n over the bits n of b that are set, from bit n on.
RECURSIVE CarrylessProduct(_, _, _)
CarrylessProduct(a, b, n) ==
    IF n > 7
    THEN 0
    ELSE BitXor(IF (b \div (2 ^ n)) % 2 = 1 THEN a * (2 ^ n) ELSE 0,
                CarrylessProduct(a, b, n + 1))

\* The polynomial p reduced modulo x^8 + x^4 + x^3 + x + 1 (0x11b = 283):
\* the modulus times x^(n - 8) is taken off for every bit n >= 8 that is
\* set, from bit n down.
RECURSIVE ReduceModulo(_, _)
ReduceModulo(p, n) ==
    IF n < 8
    THEN p
    ELSE ReduceModulo(IF (p \div (2 ^ n)) % 2 = 1
                      THEN BitXor(p, 283 * (2 ^ (n - 8)))
                      ELSE p,
                      n - 1)

\* C14: for every pair of bytes a, b, gf::mult(a, b) is the product of a
\* and b as polynomials over GF(2) reduced modulo x^8 + x^4 + x^3 + x + 1,
\* as a carry-less multiplication followed by the reduction computes it;
\* mult(0, 0) = 0, mult(1, 0) = 0 and mult(0x53, 0xCA) = 0x01 are among the
\* pairs.
C14_MultReference ==
    (FnDone /\ f_calls = <<"mult">>) =>
        /\ f_out[1] = ReduceModulo(CarrylessProduct(f_arg[1], f_arg[2], 0), 14)
        /\ f_arg = <<0, 0>> => f_out[1] = 0
        /\ f_arg = <<1, 0>> => f_out[1] = 0
        /\ f_arg = <<83, 202>> => f_out[1] = 1

\* mult(0x53, 0xCA) has returned 0x01.
C14_Witness ==
    /\ FnDone
    /\ f_calls = <<"mult">>
    /\ f_arg = <<83, 202>>
    /\ f_out = <<1>>

(***************************************************************************)
(* Properties of the key schedule, checked under SpecExpand.               *)
(***************************************************************************)
\* expand has returned: the round keys.
Expanded == IF FnDone /\ f_calls[Len(f_calls)] = "expand" THEN f_out[Len(f_out)] ELSE <<>>

\* C16: for every 16-byte key k, Key128::from_bytes(k).expand() has exactly
\* 11 round keys, of indices 0..10, and round key 0 equals k byte for byte.
C16_ElevenRoundKeys ==
    Expanded # <<>> =>
        /\ Len(Expanded) = 11
        /\ DOMAIN Expanded = 1..11
        /\ \A n \in 0..10 : Len(Get(Expanded, n)) = 16
        /\ \A k \in 0..15 : Get(Get(Expanded, 0), k) = Get(f_arg, k)

\* "YELLOW SUBMARINE" was expanded to round keys of which the second is not
\* the key.
C16_Witness ==
    /\ Expanded # <<>>
    /\ f_arg = YellowSubmarine
    /\ Get(Expanded, 0) = YellowSubmarine
    /\ Get(Expanded, 1) # YellowSubmarine

\* Column j of a round key: its bytes 4 * j .. 4 * j + 3.
Word(round_key, j) ==
    << Get(round_key, 4 * j), Get(round_key, 4 * j + 1),
       Get(round_key, 4 * j + 2), Get(round_key, 4 * j + 3) >>

\* The XOR of two words, byte by byte.
XorWord(v, w) ==
    << BitXor(Get(v, 0), Get(w, 0)), BitXor(Get(v, 1), Get(w, 1)),
       BitXor(Get(v, 2), Get(w, 2)), BitXor(Get(v, 3), Get(w, 3)) >>

\* C19: for every key and every n in 1..10, round key n of Key128::expand
\* has column 0 = sub_word(rot_word(column 3 of round key n - 1)) XOR
\* ROUND_CONSTANTS[n - 1] XOR column 0 of round key n - 1, and for j in 1..3
\* column j = column j - 1 of round key n XOR column j of round key n - 1.
C19_KeyScheduleRecurrence ==
    Expanded # <<>> =>
        \A n \in 1..10 :
            /\ Word(Get(Expanded, n), 0)
                   = XorWord(XorWord(sub_word(rot_word(Word(Get(Expanded, n - 1), 3))),
                                     Get(ROUND_CONSTANTS, n - 1)),
                             Word(Get(Expanded, n - 1), 0))
            /\ \A j \in 1..3 :
                   Word(Get(Expanded, n), j)
                       = XorWord(Word(Get(Expanded, n), j - 1),
                                 Word(Get(Expanded, n - 1), j))

\* The key of test_expand_128 was expanded; the last column of its last
\* round key is b6 63 0c a6.
C19_Witness ==
    /\ Expanded # <<>>
    /\ f_arg = FipsKey
    /\ Word(Get(Expanded, 10), 3) = <<182, 99, 12, 166>>

(***************************************************************************)
(* The order of the steps of cipher and inv_cipher, checked under Spec.    *)
(***************************************************************************)
\* s is the beginning of t.
IsPrefix(s, t) == Len(s) <= Len(t) /\ SubSeq(t, 1, Len(s)) = s

\* n times the sequence s.
RECURSIVE Repeat(_, _)
Repeat(s, n) == IF n = 0 THEN <<>> ELSE s \o Repeat(s, n - 1)

\* The number of calls of `name` in the trace.
Calls(name) == Cardinality({n \in 1..Len(trace) : trace[n] = name})

\* The function of the trace has returned.
TraceComplete == trace # <<>> /\ trace[Len(trace)] = "into_array"

\* The steps of cipher as C17 lists them.
CipherSteps ==
    <<"cipher", "add_round_key">>
    \o Repeat(<<"sub_bytes", "shift_rows", "mix_columns", "add_round_key">>, 9)
    \o <<"sub_bytes", "shift_rows", "add_round_key", "into_array">>

\* C17: cipher performs its steps in this order for every input:
\* add_round_key(rk[0]); then for round = 1, 2, ..., 9 sub_bytes, shift_rows,
\* mix_columns, add_round_key(rk[round]); then sub_bytes, shift_rows,
\* add_round_key(rk[10]).  Each of the 11 round keys is used exactly once,
\* mix_columns runs exactly 9 times and never in the final round.  At every
\* moment of a call the steps taken so far are the beginning of that list,
\* and at its return they are the whole list.
C17_CipherStepOrder ==
    (trace # <<>> /\ trace[1] = "cipher") =>
        /\ IsPrefix(trace, CipherSteps)
        /\ IsPrefix(keys_used, <<0, 1, 2, 3, 4, 5, 6, 7, 8, 9, 10>>)
        /\ Calls("add_round_key") = Len(keys_used)
        /\ TraceComplete =>
               /\ trace = CipherSteps
               /\ keys_used = <<0, 1, 2, 3, 4, 5, 6, 7, 8, 9, 10>>
               /\ Calls("mix_columns") = 9
               /\ SubSeq(trace, Len(trace) - 3, Len(trace))
                      = <<"sub_bytes", "shift_rows", "add_round_key", "into_array">>

\* cipher has returned the ciphertext of the input of the run.
C17_Witness ==
    /\ first = "cipher"
    /\ pc = "inv_cipher"
    /\ out1 # <<>>
    /\ TraceComplete
    /\ trace[1] = "cipher"
    /\ Len(trace) = 42

\* The steps of inv_cipher as C18 lists them.
InvCipherSteps ==
    <<"inv_cipher", "add_round_key">>
    \o Repeat(<<"inv_shift_rows", "inv_sub_bytes", "add_round_key", "inv_mix_columns">>, 9)
    \o <<"inv_shift_rows", "inv_sub_bytes", "add_round_key", "into_array">>

\* The positions of the trace at which `name` is called.
Positions(name) == {n \in 1..Len(trace) : trace[n] = name}

\* C18: inv_cipher performs its steps in this order for every input:
\* add_round_key(rk[10]); then for round = 9, 8, ..., 1 inv_shift_rows,
\* inv_sub_bytes, add_round_key(rk[round]), inv_mix_columns; then
\* inv_shift_rows, inv_sub_bytes, add_round_key(rk[0]).  The round keys are
\* used in the reverse of the order of cipher, each exactly once, and every
\* inv_mix_columns comes right after the add_round_key of its round.
C18_InvCipherStepOrder ==
    (trace # <<>> /\ trace[1] = "inv_cipher") =>
        /\ IsPrefix(trace, InvCipherSteps)
        /\ IsPrefix(keys_used, <<10, 9, 8, 7, 6, 5, 4, 3, 2, 1, 0>>)
        /\ Cardinality(Positions("add_round_key")) = Len(keys_used)
        /\ \A n \in Positions("inv_mix_columns") : trace[n - 1] = "add_round_key"
        /\ TraceComplete =>
               /\ trace = InvCipherSteps
               /\ keys_used = <<10, 9, 8, 7, 6, 5, 4, 3, 2, 1, 0>>
               /\ Cardinality(Positions("inv_mix_columns")) = 9

\* inv_cipher has returned the plaintext of the ciphertext that cipher
\* returned before.
C18_Witness ==
    /\ first = "cipher"
    /\ pc = "done"
    /\ out2 = input
    /\ TraceComplete
    /\ trace[1] = "inv_cipher"
    /\ Len(trace) = 42

(***************************************************************************)
(* The construction of SBOX_ENCRYPT, checked under SpecSbox.               *)
(***************************************************************************)
\* The multiplicative inverses of x in GF(2^8) by gf::mult; 0 maps to 0.
Inverses(x) == {b \in Byte : IF x = 0 THEN b = 0 ELSE mult(x, b) = 1}

\* The byte b rotated left by n bits.
Rotl(b, n) == ((b * (2 ^ n)) % 256) + (b \div (2 ^ (8 - n)))

\* The affine transform of FIPS-197:
\* b XOR rotl(b, 1) XOR rotl(b, 2) XOR rotl(b, 3) XOR rotl(b, 4) XOR 0x63.
Affine(b) ==
    BitXor(BitXor(BitXor(BitXor(BitXor(b, Rotl(b, 1)), Rotl(b, 2)), Rotl(b, 3)),
                  Rotl(b, 4)),
           99)

\* The argument of call n of the caller.
FnArgument(n) == IF n = 1 THEN f_arg ELSE f_out[n - 1]

\* C20: for every byte x, SBOX_ENCRYPT[x] is the FIPS-197 construction
\* computed with gf::mult: the affine transform of the multiplicative
\* inverse of x in GF(2^8), where 0 maps to 0.  Every byte has exactly one
\* such inverse.
C20_SboxConstruction ==
    \A n \in 1..Len(f_out) :
        f_calls[n] = "SBOX_ENCRYPT" =>
            /\ Cardinality(Inverses(FnArgument(n))) = 1
            /\ \A b \in Inverses(FnArgument(n)) : f_out[n] = Affine(b)

\* 0x53 was looked up in SBOX_ENCRYPT, which gave 0xed; its inverse is
\* 0xca.
C20_Witness ==
    /\ FnDone
    /\ f_calls[1] = "SBOX_ENCRYPT"
    /\ f_arg = 83
    /\ f_out[1] = 237
    /\ Inverses(83) = {202}

(***************************************************************************)
(* The positions shift_rows and inv_shift_rows move the bytes to, checked  *)
(* under SpecState.                                                        *)
(***************************************************************************)
\* The calls of `name` made so far, by their place in f_calls.
FnCalls(name) == {n \in 1..Len(f_out) : f_calls[n] = name}

\* The State has 16 different bytes.
AllDifferent(s) == Cardinality({s[k] : k \in 1..Len(s)}) = Len(s)

\* C21: after every call of shift_rows, the byte at (row r, column c) is the
\* byte that was at (row r, column (c + r) mod 4) before the call, for all r
\* and c in 0..3: row r is rotated left by r positions, row 0 is unchanged.
C21_ShiftRowsPositions ==
    \A n \in FnCalls("shift_rows") :
        \A r \in 0..3 : \A c \in 0..3 :
            State_index(f_out[n], r, c) = State_index(FnArgument(n), r, (c + r) % 4)

\* shift_rows has returned from the State of test_shift_rows, which has 16
\* different bytes, so that every byte of the result is found at one
\* position of the argument only; the result is the State the test expects.
C21_Witness ==
    \E n \in FnCalls("shift_rows") :
        /\ FnArgument(n) = test_shift_rows_state
        /\ AllDifferent(FnArgument(n))
        /\ f_out[n] = from_rows(<< <<116, 197, 223, 60>>, <<30, 147, 98, 108>>,
                                   <<121, 176, 225, 221>>, <<231, 9, 59, 199>> >>)

\* C22: after every call of inv_shift_rows, the byte at (row r, column c) is
\* the byte that was at (row r, column (c - r) mod 4) before the call, for
\* all r and c in 0..3: row r is rotated right by r positions.
C22_InvShiftRowsPositions ==
    \A n \in FnCalls("inv_shift_rows") :
        \A r \in 0..3 : \A c \in 0..3 :
            State_index(f_out[n], r, c) = State_index(FnArgument(n), r, (c + 4 - r) % 4)

\* inv_shift_rows has returned from the State of test_inv_shift_rows, which
\* has 16 different bytes; the result is the State the test expects.
C22_Witness ==
    \E n \in FnCalls("inv_shift_rows") :
        /\ FnArgument(n) = test_shift_rows_state
        /\ AllDifferent(FnArgument(n))
        /\ f_out[n] = from_rows(<< <<116, 197, 223, 60>>, <<98, 108, 30, 147>>,
                                   <<121, 176, 225, 221>>, <<59, 199, 231, 9>> >>)

(***************************************************************************)
(* The matrix of mix_columns, checked under SpecState.                     *)
(***************************************************************************)
\* The matrix of MixColumns, row by row.
MixMatrix ==
    << <<2, 3, 1, 1>>,
       <<1, 2, 3, 1>>,
       <<1, 1, 2, 3>>,
       <<3, 1, 1, 2>> >>

\* The product of two bytes in GF(2^8): the carry-less product, reduced.
GfProduct(a, b) == ReduceModulo(CarrylessProduct(a, b, 0), 14)

\* The product of a 4x4 matrix with a column of 4 bytes in GF(2^8).
MatrixProduct(matrix, col) ==
    [r \in 1..4 |->
        BitXor(BitXor(GfProduct(matrix[r][1], col[1]), GfProduct(matrix[r][2], col[2])),
               BitXor(GfProduct(matrix[r][3], col[3]), GfProduct(matrix[r][4], col[4])))]

\* C23: Column::mix replaces a column by the product of the matrix with rows
\* (02 03 01 01), (01 02 03 01), (01 01 02 03), (03 01 01 02) and the
\* column, and mix_columns replaces every column of a State by that product
\* of the column of the same index; column db 13 53 45 becomes 8e 4d a1 bc
\* and column 01 01 01 01 stays as it is.
C23_MixColumnsMatrix ==
    /\ \A n \in FnCalls("mix") :
           /\ f_out[n] = MatrixProduct(MixMatrix, FnArgument(n))
           /\ FnArgument(n) = <<219, 19, 83, 69>> => f_out[n] = <<142, 77, 161, 188>>
           /\ FnArgument(n) = <<1, 1, 1, 1>> => f_out[n] = <<1, 1, 1, 1>>
    /\ \A n \in FnCalls("mix_columns") :
           \A c \in 0..3 :
               SubSeq(f_out[n], 4 * c + 1, 4 * c + 4) =
                   MatrixProduct(MixMatrix, SubSeq(FnArgument(n), 4 * c + 1, 4 * c + 4))

\* mix_columns has returned from the State of text_mix_columns, whose four
\* columns differ, the State the test expects.
C23_Witness ==
    \E n \in FnCalls("mix_columns") :
        /\ FnArgument(n) = text_mix_columns_state
        /\ f_out[n] = from_rows(<< <<4, 224, 72, 40>>, <<102, 203, 248, 6>>,
                                   <<129, 25, 211, 38>>, <<229, 154, 122, 76>> >>)

(***************************************************************************)
(* The round constants, checked under SpecRcon.                            *)
(***************************************************************************)
\* The first byte of entry n of ROUND_CONSTANTS.
RoundConstant(n) == Get(Get(ROUND_CONSTANTS, n), 0)

\* C24: ROUND_CONSTANTS has 10 entries, which are the successive powers of 2
\* in GF(2^8): the first byte of entry 0 is 0x01, the first byte of entry i
\* is gf::mult(0x02, first byte of entry i - 1) for i in 1..9 (the 9th entry
\* is 0x1b, the 10th 0x36), and bytes 1..3 of every entry are 0; so rcon
\* changes the first byte of the word only, by the XOR with the constant.
C24_RoundConstants ==
    /\ Len(ROUND_CONSTANTS) = 10
    /\ RoundConstant(0) = 1
    /\ \A n \in 1..9 : RoundConstant(n) = mult(2, RoundConstant(n - 1))
    /\ RoundConstant(8) = 27
    /\ RoundConstant(9) = 54
    /\ \A n \in 0..9 : \A k \in 1..3 : Get(Get(ROUND_CONSTANTS, n), k) = 0
    /\ \A n \in FnCalls("rcon") :
           /\ Get(f_out[n], 0) = BitXor(Get(FnArgument(n), 0), RoundConstant(f_index))
           /\ \A k \in 1..3 : Get(f_out[n], k) = Get(FnArgument(n), k)

\* rcon has added the 9th round constant, 0x1b, the first one past 0x80, to
\* the word db 13 53 45, which gave c0 13 53 45.
C24_Witness ==
    \E n \in FnCalls("rcon") :
        /\ f_index = 8
        /\ FnArgument(n) = <<219, 19, 83, 69>>
        /\ f_out[n] = <<192, 19, 83, 69>>

(***************************************************************************)
(* The layout of State, checked under SpecLayout.                          *)
(***************************************************************************)
\* C25: State is column-major: for every 16-byte input, the State that
\* from_bytes builds from it has input[c * 4 + r] at (row r, column c),
\* column(c) is input[4c .. 4c + 4], and into_array gives the input again;
\* set_column(i, col) changes bytes 4i..4i+3 only.  The columns are those
\* of index 0..3: column and set_column panic for an index above 3.
C25_ColumnMajor ==
    /\ \A n \in FnCalls("index") :
           f_out[n] = Get(f_arg, f_index[2] * 4 + f_index[1])
    /\ \A n \in FnCalls("column") :
           IF f_index <= 3
           THEN f_out[n] = << Get(f_arg, 4 * f_index), Get(f_arg, 4 * f_index + 1),
                              Get(f_arg, 4 * f_index + 2), Get(f_arg, 4 * f_index + 3) >>
           ELSE f_out[n] = Panicked("block only has 4 columns")
    /\ \A n \in FnCalls("into_array") : f_out[n] = f_arg
    /\ \A n \in FnCalls("set_column") :
           IF f_index <= 3
           THEN \A k \in 0..15 :
                    k \notin (4 * f_index)..(4 * f_index + 3)
                        => Get(f_out[n], k) = Get(f_arg, k)
           ELSE f_out[n] = Panicked("block only has 4 columns")

\* state[(1, 2)] of the State of the bytes 0..15 has given 9, the byte at
\* linear index 2 * 4 + 1.
C25_Witness ==
    /\ FnDone
    /\ f_calls = <<"State::from_bytes", "index">>
    /\ f_arg = state_indexed_input
    /\ f_index = <<1, 2>>
    /\ f_out[2] = 9

(***************************************************************************)
(* sub_bytes and inv_sub_bytes, checked under SpecState.                   *)
(***************************************************************************)
\* C26: sub_bytes replaces the byte at each of the 16 positions of the State
\* by SBOX_ENCRYPT[byte], and inv_sub_bytes replaces it by
\* SBOX_DECRYPT[byte]: every byte of the result is the table entry of the
\* byte at the same position.
C26_SubBytes ==
    /\ \A n \in FnCalls("sub_bytes") :
           /\ Len(f_out[n]) = 16
           /\ \A k \in 0..15 : Get(f_out[n], k) = Get(SBOX_ENCRYPT, Get(FnArgument(n), k))
    /\ \A n \in FnCalls("inv_sub_bytes") :
           /\ Len(f_out[n]) = 16
           /\ \A k \in 0..15 : Get(f_out[n], k) = Get(SBOX_DECRYPT, Get(FnArgument(n), k))

\* sub_bytes has returned from the State of test_sub_bytes_encrypt the State
\* the test expects, and inv_sub_bytes the first State from that.
C26_Witness ==
    /\ FnDone
    /\ f_calls = <<"sub_bytes", "inv_sub_bytes">>
    /\ f_arg = test_sub_bytes_encrypt_state
    /\ f_out[1] = from_rows(<< <<212, 224, 184, 30>>, <<39, 191, 180, 65>>,
                               <<17, 152, 93, 82>>, <<174, 241, 229, 48>> >>)
    /\ f_out[2] = f_arg

(***************************************************************************)
(* Termination of gf::mult, checked under SpecMultLoop.                    *)
(***************************************************************************)
\* At every point of a call of gf::mult: the loop body has been passed
\* through at most 8 times, the loop variables are bytes, b is the argument
\* b shifted right once per pass, after 8 passes the loop condition fails,
\* and the value returned is a byte, the one that mult(a, b) stands for.
MultLoopBounded ==
    g_pc \in {"loop", "returned"} =>
        /\ g_passes <= 8
        /\ g_a \in Byte
        /\ g_b \in Byte
        /\ g_result \in Byte
        /\ g_b = g_arg[2] \div (2 ^ g_passes)
        /\ g_passes = 8 => ~mult_condition(g_a, g_b)
        /\ g_pc = "returned" => g_result = mult(g_arg[1], g_arg[2])

\* C27: gf::mult is total: for every pair of bytes the call returns, after
\* at most 8 passes through the loop (b is shifted right once per pass and
\* the loop stops when a or b is 0); every value a step computes is a byte,
\* and so is the result.
C27_MultTerminates == []MultLoopBounded /\ <>(g_pc = "returned")

\* mult(0x53, 0xff) has returned after 8 passes through the loop, the most
\* there are.
C27_Witness ==
    /\ g_pc = "returned"
    /\ g_arg = <<83, 255>>
    /\ g_passes = 8
    /\ g_result = mult(83, 255)

(***************************************************************************)
(* cipher after inv_cipher, checked under Spec.                            *)
(***************************************************************************)
\* C28: for every block c and key k of the model,
\* cipher(inv_cipher(c, expand(k)), expand(k)) = c: when inv_cipher was
\* called on the input and cipher on its result, cipher returns the input,
\* a block of 16 bytes as the result of inv_cipher is.
C28_InverseRoundTrip ==
    (first = "inv_cipher" /\ pc = "done") =>
        /\ Len(out1) = 16
        /\ Len(out2) = 16
        /\ out2 = input

\* A run in which inv_cipher, under the key "YELLOW SUBMARINE", has turned
\* the input into "SUPER TOP SECRET" and cipher has returned the input.
C28_Witness ==
    /\ first = "inv_cipher"
    /\ pc = "done"
    /\ key = YellowSubmarine
    /\ out1 = SuperTopSecret
    /\ out1 # input
    /\ out2 = input

(***************************************************************************)
(* gf::mult with the operands exchanged, checked under SpecMult.           *)
(***************************************************************************)
\* The constants Column::mix and Column::inv_mix multiply by.
MixConstants == {2, 3, 9, 11, 13, 14}

\* C29: gf::mult is commutative: for every pair of bytes a, b, mult(a, b) is
\* mult(b, a), although the loop doubles a and shifts b out; so each call
\* mult(constant, byte) of Column::mix and Column::inv_mix gives what
\* mult(byte, constant) gives.
C29_MultCommutative ==
    (FnDone /\ f_calls = <<"mult">>) => f_out[1] = mult(f_arg[2], f_arg[1])

\* mult(0x0e, 0xdb), a call with a constant of inv_mix first, has returned,
\* and the loop takes 8 passes for it and 4 with the operands exchanged.
C29_Witness ==
    /\ FnDone
    /\ f_calls = <<"mult">>
    /\ f_arg = <<14, 219>>
    /\ f_arg[1] \in MixConstants
    /\ f_out[1] = mult(219, 14)
    /\ f_out[1] # 0

(***************************************************************************)
(* Key128::column, checked under SpecKeyColumn.                            *)
(***************************************************************************)
\* C30, as stated: Key128::column(index) returns the key bytes
\* [4 * index, 4 * index + 4) for index in 0..3, and every index from 4 on,
\* which addresses no full column of the 16-byte key, is stopped by the
\* assertion "index out of range" before the byte range is sliced and
\* unwrapped.
C30_AsStated ==
    \A n \in FnCalls("Key128::column") :
        /\ f_index \in 0..3 =>
               f_out[n] = Returned(<< Get(f_arg, 4 * f_index), Get(f_arg, 4 * f_index + 1),
                                      Get(f_arg, 4 * f_index + 2), Get(f_arg, 4 * f_index + 3) >>)
        /\ f_index >= 4 => f_out[n] = Panicked("index out of range")

\* C30, what the code does: as stated for index in 0..3 and for every index
\* from 5 on; index 4 passes the assertion and panics in the unwrap of the
\* range that get did not find.
C30_KeyColumn ==
    \A n \in FnCalls("Key128::column") :
        /\ f_index \in 0..3 =>
               f_out[n] = Returned(<< Get(f_arg, 4 * f_index), Get(f_arg, 4 * f_index + 1),
                                      Get(f_arg, 4 * f_index + 2), Get(f_arg, 4 * f_index + 3) >>)
        /\ f_index = 4 => f_out[n] = Panicked("called Option::unwrap() on a None value")
        /\ f_index >= 5 => f_out[n] = Panicked("index out of range")

\* column(4) of the key of test_column has panicked, and not in the
\* assertion.
C30_Witness ==
    \E n \in FnCalls("Key128::column") :
        /\ f_arg = FipsKey
        /\ f_index = 4
        /\ f_out[n].tag = "panicked"
        /\ f_out[n].message # "index out of range"

====
